---- MODULE Spec2Model ----
(***************************************************************************)
(* Alert lifecycle of moveinsync-sentinel: the Alert state machine, the    *)
(* rule engine (evaluateAlert / processAlert / processBatch), the two      *)
(* background sweeps and the alert controllers that call the engine.       *)
(* Time is counted in minutes.  Every await on the store is a suspension   *)
(* point: one action per continuation.                                     *)
(***************************************************************************)
EXTENDS Integers, Sequences, FiniteSets, TLC

VARIABLES
    now,          \* Date.now(), in minutes
    store,        \* Alert collection: alertId -> stored document
    history,      \* AlertHistory collection, in append order
    ruleStore,    \* Rule collection: set of rule documents
    rules,        \* RuleEngine.rules: Map sourceType -> rule
    initialized,  \* RuleEngine.initialized
    proc,         \* one record of locals per operation in flight
    changes,      \* every change of a stored status, in the order applied
    ops,          \* number of operations started so far, where bounded
    jobs,         \* BackgroundJobs: jobs, isRunning, stats
    cache         \* cacheManager: key -> cached value

vars == <<now, store, history, ruleStore, rules, initialized, proc, changes,
          ops, jobs, cache>>

----------------------------------------------------------------------------
(* Bounds of the model *)

MaxTime == 2
MaxAlerts == 1
MaxOps == 3
MaxSeqAlerts == 2
MaxScenarioAlerts == 3
MaxScenarioTime == 1
MaxRuns == 1            \* completed sweep runs
MaxJobsAlerts == 2
MaxBatchAlerts == 4
MaxBatchTime == 1
MaxExpiryAlerts == 3
MaxMethodTime == 2
MaxLoadAlerts == 2
MaxTriggerAlerts == 2
MaxTriggerTime == 1
MaxFairRuns == 2
MaxFairTime == 1
MaxEvaluateTime == 1
MaxCacheAlerts == 2
MaxHorizons == 1        \* expiry horizons that pass

----------------------------------------------------------------------------
(* Values *)

NoTime == -1
NoNum == -1
ExpiryDays == 30
PageLimit == 20
BatchLimit == 3          \* limit(100), scaled to the alerts of the model

ActiveStatuses == {"OPEN", "ESCALATED"}
TerminalStatuses == {"AUTO_CLOSED", "RESOLVED"}
SourceTypes == {"overspeed", "compliance"}
Drivers == {"D1", "D2"}

Metadata(driver, speed, limit) ==
    [driverId |-> driver, speed |-> speed, speedLimit |-> limit,
     feedbackRating |-> NoNum, expiryDate |-> NoTime,
     documentValid |-> "undefined", trueFlags |-> {}]

NoAlert ==
    [alertId |-> 0, sourceType |-> "", severity |-> "", status |-> "",
     timestamp |-> NoTime, metadata |-> Metadata("", NoNum, NoNum),
     escalatedAt |-> NoTime, autoClosedAt |-> NoTime, resolvedAt |-> NoTime,
     closureReason |-> "", resolvedBy |-> "", notes |-> "",
     expiresAt |-> NoTime]

NewAlert(id, sourceType, severity, metadata, t) ==
    [NoAlert EXCEPT !.alertId = id, !.sourceType = sourceType,
                    !.severity = IF severity = "" THEN "INFO" ELSE severity,
                    !.status = "OPEN", !.timestamp = t,
                    !.metadata = metadata,
                    !.expiresAt = t + ExpiryDays * 24 * 60]

Rule(id, sourceType, enabled, priority, count, window, closeIf, closeAfter) ==
    [ruleId |-> id, sourceType |-> sourceType, enabled |-> enabled,
     priority |-> priority,
     conditions |-> [escalate_if_count |-> count, window_mins |-> window,
                     auto_close_if |-> closeIf,
                     auto_close_after_mins |-> closeAfter]]

NoRule == Rule("", "", FALSE, 0, 0, 0, "", 0)

NoEvaluation ==
    [shouldEscalate |-> FALSE, shouldAutoClose |-> FALSE,
     reason |-> "undefined", rule |-> "undefined"]

\* new BackgroundJobs(): jobs is the number of scheduled tasks
NewBackgroundJobs ==
    [jobs |-> 0, isRunning |-> FALSE,
     stats |-> [autoCloseRuns |-> 0, ruleEvaluationRuns |-> 0,
                lastAutoCloseRun |-> NoTime, lastRuleEvaluationRun |-> NoTime]]

----------------------------------------------------------------------------
(* Cache manager *)

EmptyCache == [k \in {} |-> <<>>]

\* key.includes(pattern), for the keys and patterns in use
Includes(key, pattern) ==
    \/ pattern = "alerts:" /\ key = "alerts:list"
    \/ pattern = "dashboard:" /\ key = "dashboard:overview"
    \/ pattern = key

set(c, key, value) ==
    [k \in DOMAIN c \cup {key} |-> IF k = key THEN value ELSE c[k]]

delete(c, key) == [k \in DOMAIN c \ {key} |-> c[k]]

invalidatePattern(c, pattern) ==
    [k \in {key \in DOMAIN c : ~Includes(key, pattern)} |-> c[k]]

----------------------------------------------------------------------------
(* Alert state machine *)

\* variant: the severity is left as it was
escalateKeepSeverity(alert, reason, t) ==
    IF alert.status = "OPEN"
    THEN [alert EXCEPT !.status = "ESCALATED", !.escalatedAt = t,
                       !.notes = IF reason \in {"", "undefined"}
                                 THEN "Auto-escalated by rule engine" ELSE reason]
    ELSE alert

escalate(alert, reason, t) ==
    IF alert.status = "OPEN"
    THEN [alert EXCEPT !.status = "ESCALATED", !.severity = "CRITICAL",
                       !.escalatedAt = t,
                       !.notes = IF reason \in {"", "undefined"}
                                 THEN "Auto-escalated by rule engine"
                                 ELSE reason]
    ELSE alert

\* variant: closing from every status
autoCloseAnyStatus(alert, reason, t) ==
    [alert EXCEPT !.status = "AUTO_CLOSED", !.autoClosedAt = t, !.closureReason = reason]

autoClose(alert, reason, t) ==
    IF alert.status \in {"OPEN", "ESCALATED"}
    THEN [alert EXCEPT !.status = "AUTO_CLOSED", !.autoClosedAt = t,
                       !.closureReason = reason]
    ELSE alert

\* variant: resolving active alerts only
resolveActive(alert, userId, notes, t) ==
    IF alert.status \in {"OPEN", "ESCALATED"}
    THEN [alert EXCEPT !.status = "RESOLVED", !.resolvedAt = t, !.resolvedBy = userId, !.notes = notes]
    ELSE alert

resolve(alert, userId, notes, t) ==
    [alert EXCEPT !.status = "RESOLVED", !.resolvedAt = t,
                  !.resolvedBy = userId, !.notes = notes]

----------------------------------------------------------------------------
(* Store operations *)

\* document.save(): $set of the paths modified since the document was loaded
Save(docs, alert, orig) ==
    [docs EXCEPT ![alert.alertId] =
        [f \in DOMAIN @ |-> IF alert[f] # orig[f] THEN alert[f] ELSE @[f]]]

logTransition(log, alert, fromStatus, toStatus, reason, triggeredBy) ==
    Append(log, [alertId |-> alert.alertId, fromStatus |-> fromStatus,
                 toStatus |-> toStatus, reason |-> reason,
                 triggeredBy |-> triggeredBy])

\* the record of a write that changed the stored status of alert id
Changed(log, before, after, id) ==
    IF before[id].status # after[id].status
    THEN Append(log, <<id, before[id].status, after[id].status>>)
    ELSE log

Unexpired(doc, t) == doc.expiresAt = NoTime \/ doc.expiresAt > t

\* variant: the count without the status filter
CountDocumentsAnyStatus(docs, alert, from) ==
    Cardinality({id \in DOMAIN docs :
        /\ docs[id].sourceType = alert.sourceType
        /\ docs[id].metadata.driverId = alert.metadata.driverId
        /\ docs[id].timestamp >= from})

\* Alert.countDocuments of evaluateAlert
CountDocuments(docs, alert, from) ==
    Cardinality({id \in DOMAIN docs :
        /\ docs[id].sourceType = alert.sourceType
        /\ docs[id].metadata.driverId = alert.metadata.driverId
        /\ docs[id].timestamp >= from
        /\ docs[id].status \in {"OPEN", "ESCALATED"}})

----------------------------------------------------------------------------
(* Rule engine: index *)

\* Rule.find({ enabled: true }).sort({ priority: -1 })
RECURSIVE FindEnabledRules(_)
FindEnabledRules(rs) ==
    LET enabled == {r \in rs : r.enabled}
    IN IF enabled = {} THEN <<>>
       ELSE LET top == CHOOSE r \in enabled :
                           \A q \in enabled : q.priority <= r.priority
            IN <<top>> \o FindEnabledRules(rs \ {top})

\* variant: a type that is set keeps its rule
RECURSIVE SetAllFirst(_, _)
SetAllFirst(index, found) ==
    IF found = <<>> THEN index
    ELSE LET rule == Head(found)
         IN SetAllFirst(IF rule.sourceType \in DOMAIN index THEN index
                        ELSE index @@ (rule.sourceType :> rule), Tail(found))

\* this.rules.clear(); rules.forEach(rule => this.rules.set(rule.sourceType, rule))
RECURSIVE SetAll(_, _)
SetAll(index, found) ==
    IF found = <<>> THEN index
    ELSE LET rule == Head(found)
             rest == [t \in DOMAIN index \ {rule.sourceType} |-> index[t]]
         IN SetAll(rest @@ (rule.sourceType :> rule), Tail(found))

EmptyIndex == [t \in {} |-> NoRule]

initialize(rs) == SetAll(EmptyIndex, FindEnabledRules(rs))

getRule(index, sourceType) == index[sourceType]

----------------------------------------------------------------------------
(* Rule engine: evaluation *)

\* variant: an expiry date of this very minute counts as valid
evaluateCloseConditionAtExpiry(condition, metadata, t) ==
    IF condition = "document_valid"
    THEN \/ metadata.documentValid = "true"
         \/ metadata.expiryDate # NoTime /\ metadata.expiryDate >= t
    ELSE IF condition = "speed_normalized"
    THEN /\ metadata.speed # NoNum
         /\ metadata.speedLimit # NoNum
         /\ metadata.speed <= metadata.speedLimit
    ELSE IF condition = "feedback_improved"
    THEN metadata.feedbackRating # NoNum /\ metadata.feedbackRating >= 3
    ELSE \/ condition \in metadata.trueFlags
         \/ condition = "documentValid" /\ metadata.documentValid = "true"

\* documentValid is "undefined", "true", "false" or "'true'" (the string);
\* trueFlags are the names of the other fields whose value is boolean true
evaluateCloseCondition(condition, metadata, t) ==
    IF condition = "document_valid"
    THEN \/ metadata.documentValid = "true"
         \/ metadata.expiryDate # NoTime /\ metadata.expiryDate > t
    ELSE IF condition = "speed_normalized"
    THEN /\ metadata.speed # NoNum
         /\ metadata.speedLimit # NoNum
         /\ metadata.speed <= metadata.speedLimit
    ELSE IF condition = "feedback_improved"
    THEN metadata.feedbackRating # NoNum /\ metadata.feedbackRating >= 3
    ELSE \/ condition \in metadata.trueFlags
         \/ condition = "documentValid" /\ metadata.documentValid = "true"

\* conditions.escalate_if_count && conditions.window_mins
ChecksCount(rule) ==
    rule.conditions.escalate_if_count # 0 /\ rule.conditions.window_mins # 0

\* variant: the enabled flag of the indexed rule is not looked at
HasRule(index, alert) == alert.sourceType \in DOMAIN index

\* !(!rule || !rule.enabled)
HasActiveRule(index, alert) ==
    alert.sourceType \in DOMAIN index /\ getRule(index, alert.sourceType).enabled

\* variant: a window of no length
windowStartNow(conditions, t) == t

\* new Date(Date.now() - conditions.window_mins * 60 * 1000), in minutes
windowStart(conditions, t) == t - conditions.window_mins

\* variant: the age one minute short
alertAgeShort(alert, t) == t - alert.timestamp - 1

\* (Date.now() - alert.timestamp) / (1000 * 60)
alertAge(alert, t) == t - alert.timestamp

\* variant: the reason of the first satisfied check is kept
evaluateAlertFirstReason(alert, index, docs, t) ==
    IF ~HasActiveRule(index, alert) THEN NoEvaluation
    ELSE
      LET rule == getRule(index, alert.sourceType)
          conditions == rule.conditions
          alertCount == CountDocuments(docs, alert, windowStart(conditions, t))
          countMet == ChecksCount(rule)
                      /\ alertCount >= conditions.escalate_if_count
          closeConditionMet ==
              /\ conditions.auto_close_if # ""
              /\ evaluateCloseCondition(conditions.auto_close_if,
                                        alert.metadata, t)
          aged == /\ conditions.auto_close_after_mins # 0
                  /\ alertAge(alert, t) >= conditions.auto_close_after_mins
      IN [shouldEscalate |-> countMet,
          shouldAutoClose |-> closeConditionMet \/ aged,
          reason |-> IF countMet THEN "count"
                     ELSE IF closeConditionMet THEN "condition"
                     ELSE IF aged THEN "aged" ELSE "",
          rule |-> rule.ruleId]

\* the count queries evaluateAlert sends: one, after the rule lookup, when
\* the rule sets escalate_if_count and window_mins
CountQueries(index, alert) ==
    IF HasActiveRule(index, alert)
       /\ ChecksCount(getRule(index, alert.sourceType))
    THEN 1 ELSE 0

evaluateAlert(alert, index, docs, t) ==
    IF ~HasActiveRule(index, alert) THEN NoEvaluation
    ELSE
      LET rule == getRule(index, alert.sourceType)
          conditions == rule.conditions
          alertCount == CountDocuments(docs, alert, windowStart(conditions, t))
          countMet == ChecksCount(rule)
                      /\ alertCount >= conditions.escalate_if_count
          closeConditionMet ==
              /\ conditions.auto_close_if # ""
              /\ evaluateCloseCondition(conditions.auto_close_if,
                                        alert.metadata, t)
          aged == /\ conditions.auto_close_after_mins # 0
                  /\ alertAge(alert, t) >= conditions.auto_close_after_mins
      IN [shouldEscalate |-> countMet,
          shouldAutoClose |-> closeConditionMet \/ aged,
          reason |-> IF aged THEN "aged"
                     ELSE IF closeConditionMet THEN "condition"
                     ELSE IF countMet THEN "count" ELSE "",
          rule |-> rule.ruleId]

\* variant: the escalation guard without the status test
EscalationDueAnyStatus(evaluation, alert) == evaluation.shouldEscalate

\* the guards of processAlert
EscalationDue(evaluation, alert) ==
    evaluation.shouldEscalate /\ alert.status = "OPEN"

\* variant: the auto-close guard without the status test
AutoCloseDueAnyStatus(evaluation, alert) == evaluation.shouldAutoClose

AutoCloseDue(evaluation, alert) ==
    evaluation.shouldAutoClose /\ alert.status \in {"OPEN", "ESCALATED"}

----------------------------------------------------------------------------
(* Operations in flight.  "cr" createAlert, "up" updateAlert,              *)
(* "rs" resolveAlert, "ac" runAutoCloseJob, "re" runRuleEvaluationJob,     *)
(* "tw" a caller that hands one alert object to processAlert twice,        *)
(* "ru" createRule, updateRule, deleteRule or toggleRule, "ov" getOverview,*)
(* "ls" getAlerts, "fn" a caller of the document methods and of the        *)
(* evaluation functions on documents of its own.                           *)

Procs == {"cr", "up", "rs", "ac", "re", "tw", "ru", "ov", "ls", "fn"}
Sweeps == {"ac", "re"}

ZeroResults == [processed |-> 0, escalated |-> 0, autoClosed |-> 0, errors |-> 0]

\* what a sweep run hands to its caller: nothing, on every path
Undefined == [defined |-> FALSE, results |-> ZeroResults, errors |-> 0]

\* locals of an operation; found is the answer of Rule.find on its way to
\* initialize, rule the document of the rule controller.  atCall, logged, calls, prev and prevLogged observe the
\* processAlert call: the status of the alert when it was called, the
\* history entries it appended, and the same for the call before it; total,
\* outcome, manual and reply observe a sweep run: the length of its batch,
\* how it ended ("done", "empty", "error"), whether it was triggered by hand
\* and what it returns; first is, in a run that follows a completed run of
\* the same sweep at once, the length of the batch of that run; args and at
\* are the arguments and the time of a direct call, queries the number of
\* count queries it sent to the store
IdleProc ==
    [pc |-> "idle", alert |-> NoAlert, orig |-> NoAlert, ev |-> NoEvaluation,
     oldStatus |-> "", modified |-> FALSE, success |-> FALSE,
     batch |-> <<>>, results |-> ZeroResults, found |-> <<>>,
     rule |-> NoRule,
     atCall |-> "", logged |-> <<>>, calls |-> 0,
     prev |-> NoAlert, prevLogged |-> <<>>, prevSuccess |-> FALSE,
     total |-> 0, outcome |-> "", manual |-> FALSE, reply |-> Undefined,
     first |-> 0, args |-> <<>>, at |-> NoTime, queries |-> 0]

AllIdle == \A p \in Procs : proc[p].pc = "idle"

\* const evaluation = await this.evaluateAlert(alert); let modified = false
CallProcessAlert(locals, alert) ==
    [locals EXCEPT !.pc = "eval", !.alert = alert, !.ev = NoEvaluation,
                   !.oldStatus = "", !.modified = FALSE, !.success = FALSE,
                   !.atCall = alert.status, !.logged = <<>>]

\* return { success: true, modified, evaluation }
ReturnFromProcessAlert(locals) ==
    [locals EXCEPT !.pc = "ret", !.success = TRUE]

\* variant: processAlert returns after the escalation
AfterEscalationReturn(locals) ==
    ReturnFromProcessAlert([locals EXCEPT !.modified = TRUE])

\* after a transition was saved and logged: modified = true, then the
\* auto-close guard
AfterEscalation(locals) ==
    IF AutoCloseDue(locals.ev, locals.alert)
    THEN [locals EXCEPT !.pc = "closeSave", !.modified = TRUE,
                        !.oldStatus = locals.alert.status,
                        !.alert = autoClose(locals.alert, locals.ev.reason, now)]
    ELSE ReturnFromProcessAlert([locals EXCEPT !.modified = TRUE])

AfterEvaluation(locals) ==
    IF EscalationDue(locals.ev, locals.alert)
    THEN [locals EXCEPT !.pc = "escSave",
                        !.oldStatus = locals.alert.status,
                        !.alert = escalate(locals.alert, locals.ev.reason, now)]
    ELSE IF AutoCloseDue(locals.ev, locals.alert)
    THEN [locals EXCEPT !.pc = "closeSave",
                        !.oldStatus = locals.alert.status,
                        !.alert = autoClose(locals.alert, locals.ev.reason, now)]
    ELSE ReturnFromProcessAlert(locals)

\* evaluateAlert returns to processAlert
Evaluate(p) ==
    /\ proc[p].pc = "eval"
    /\ LET cached == "rules:all" \in DOMAIN cache
           index == IF initialized THEN rules
                    ELSE IF cached THEN SetAll(EmptyIndex, cache["rules:all"])
                    ELSE initialize(ruleStore)
           evaluation == evaluateAlert(proc[p].alert, index, store, now)
       IN /\ rules' = index
          /\ initialized' = TRUE
          /\ cache' = IF initialized \/ cached THEN cache
                       ELSE set(cache, "rules:all", FindEnabledRules(ruleStore))
          /\ proc' = [proc EXCEPT
                        ![p] = AfterEvaluation([@ EXCEPT !.ev = evaluation])]
    /\ UNCHANGED <<now, store, changes, history, ruleStore, ops, jobs>>

\* alert.save() after escalate
SaveEscalation(p) ==
    /\ proc[p].pc = "escSave"
    /\ store' = Save(store, proc[p].alert, proc[p].orig)
    /\ changes' = Changed(changes, store, store', proc[p].alert.alertId)
    /\ proc' = [proc EXCEPT ![p].pc = "escLog", ![p].orig = proc[p].alert]
    /\ UNCHANGED <<now, history, ruleStore, rules, initialized, ops, jobs, cache>>

\* AlertHistory.logTransition(..., oldStatus, 'ESCALATED', ...)
LogEscalation(p) ==
    /\ proc[p].pc = "escLog"
    /\ history' = logTransition(history, proc[p].alert, proc[p].oldStatus,
                                "ESCALATED", proc[p].ev.reason, "RULE_ENGINE")
    /\ proc' = [proc EXCEPT ![p] = AfterEscalation(
                  [@ EXCEPT !.logged = Append(@,
                      <<proc[p].oldStatus, "ESCALATED", proc[p].ev.reason>>)])]
    /\ UNCHANGED <<now, store, changes, ruleStore, rules, initialized, ops, jobs, cache>>

\* alert.save() after autoClose
SaveAutoClose(p) ==
    /\ proc[p].pc = "closeSave"
    /\ store' = Save(store, proc[p].alert, proc[p].orig)
    /\ changes' = Changed(changes, store, store', proc[p].alert.alertId)
    /\ proc' = [proc EXCEPT ![p].pc = "closeLog", ![p].orig = proc[p].alert]
    /\ UNCHANGED <<now, history, ruleStore, rules, initialized, ops, jobs, cache>>

\* AlertHistory.logTransition(..., oldStatus, 'AUTO_CLOSED', ...)
LogAutoClose(p) ==
    /\ proc[p].pc = "closeLog"
    /\ history' = logTransition(history, proc[p].alert, proc[p].oldStatus,
                                "AUTO_CLOSED", proc[p].ev.reason, "RULE_ENGINE")
    /\ proc' = [proc EXCEPT ![p] = ReturnFromProcessAlert(
                  [@ EXCEPT !.modified = TRUE,
                            !.logged = Append(@,
                      <<proc[p].oldStatus, "AUTO_CLOSED", proc[p].ev.reason>>)])]
    /\ UNCHANGED <<now, store, changes, ruleStore, rules, initialized, ops, jobs, cache>>

\* whether evaluateAlert awaits the store at all
EvaluationQueries(p) ==
    \/ ~initialized
    \/ /\ HasActiveRule(rules, proc[p].alert)
       /\ ChecksCount(getRule(rules, proc[p].alert.sourceType))

\* variant: the error leaves processAlert and ends the operation that called
\* it
CatchAndThrow(p) ==
    /\ \/ proc[p].pc \in {"escSave", "escLog", "closeSave", "closeLog"}
       \/ proc[p].pc = "eval" /\ EvaluationQueries(p)
    /\ proc' = [proc EXCEPT ![p] = [IdleProc EXCEPT !.pc = "done",
                                                    !.outcome = "error"]]
    /\ UNCHANGED <<now, store, changes, history, ruleStore, rules, initialized, ops, jobs, cache>>

\* catch (error) { return { success: false, error: error.message } }
CatchInProcessAlert(p) ==
    /\ \/ proc[p].pc \in {"escSave", "escLog", "closeSave", "closeLog"}
       \/ proc[p].pc = "eval" /\ EvaluationQueries(p)
    /\ proc' = [proc EXCEPT ![p].pc = "ret", ![p].success = FALSE]
    /\ UNCHANGED <<now, store, changes, history, ruleStore, rules, initialized, ops, jobs, cache>>

----------------------------------------------------------------------------
(* Alert controllers *)

\* createAlert: Alert.create
CreateAlert(sourceType, severity, metadata) ==
    /\ proc["cr"].pc = "idle"
    /\ LET id == Cardinality(DOMAIN store) + 1
           alert == NewAlert(id, sourceType, severity, metadata, now)
       IN /\ store' = store @@ (id :> alert)
          /\ changes' = Append(changes, <<id, "null", "OPEN">>)
          /\ proc' = [proc EXCEPT !["cr"] =
                        [IdleProc EXCEPT !.pc = "crLog", !.alert = alert,
                                         !.orig = alert]]
    /\ UNCHANGED <<now, history, ruleStore, rules, initialized, jobs, cache>>

\* createAlert: AlertHistory.logTransition(alertId, alert, null, 'OPEN', ...)
\* then the call of ruleEngine.processAlert(alert)
LogCreation ==
    /\ proc["cr"].pc = "crLog"
    /\ history' = logTransition(history, proc["cr"].alert, "null", "OPEN",
                                "Alert created", "SYSTEM")
    /\ proc' = [proc EXCEPT !["cr"] = CallProcessAlert(@, @.alert)]
    /\ UNCHANGED <<now, store, changes, ruleStore, rules, initialized, ops, jobs, cache>>

\* createAlert / updateAlert: processAlert has returned; invalidate, respond.
\* resolveAlert: the 404 or 400 answer is on its way
Respond(p) ==
    /\ \/ p \in {"cr", "up"} /\ proc[p].pc = "ret"
       \/ p = "rs" /\ proc[p].pc = "rsAnswer"
    /\ cache' = IF p = "cr"
                 THEN invalidatePattern(invalidatePattern(cache, "alerts:"),
                                        "dashboard:")
                 ELSE IF p = "up" THEN invalidatePattern(cache, "alerts:")
                 ELSE cache
    /\ proc' = [proc EXCEPT ![p] = IdleProc]
    /\ UNCHANGED <<now, store, changes, history, ruleStore, rules, initialized, ops, jobs>>

\* updateAlert: Alert.findOne, then the assignments to metadata and notes
UpdateAlert(id, hasMetadata, metadata, notes) ==
    /\ proc["up"].pc = "idle"
    /\ id \in DOMAIN store
    /\ LET found == store[id]
           merged == [f \in DOMAIN found.metadata |->
                        IF hasMetadata /\ f \in DOMAIN metadata
                        THEN metadata[f] ELSE found.metadata[f]]
           alert == [found EXCEPT !.metadata = merged,
                                  !.notes = IF notes # "" THEN notes ELSE @]
       IN proc' = [proc EXCEPT !["up"] =
                     [IdleProc EXCEPT !.pc = "upSave", !.alert = alert,
                                      !.orig = found]]
    /\ UNCHANGED <<now, store, changes, history, ruleStore, rules, initialized, jobs, cache>>

\* updateAlert: alert.save(), then the call of ruleEngine.processAlert(alert)
SaveUpdate ==
    /\ proc["up"].pc = "upSave"
    /\ store' = Save(store, proc["up"].alert, proc["up"].orig)
    /\ changes' = Changed(changes, store, store', proc["up"].alert.alertId)
    /\ proc' = [proc EXCEPT !["up"] =
                  CallProcessAlert([@ EXCEPT !.orig = proc["up"].alert],
                                   proc["up"].alert)]
    /\ UNCHANGED <<now, history, ruleStore, rules, initialized, ops, jobs, cache>>

\* variant: no answer 400, closed alerts are resolved like the others
ResolveAlertAnyStatus(id, notes) ==
    /\ proc["rs"].pc = "idle"
    /\ LET found == IF id \in DOMAIN store THEN store[id] ELSE NoAlert
       IN proc' = [proc EXCEPT !["rs"] =
                     IF found = NoAlert
                     THEN [IdleProc EXCEPT !.pc = "rsAnswer", !.args = <<id>>,
                                           !.outcome = "404"]
                     ELSE [IdleProc EXCEPT
                             !.pc = "rsSave", !.orig = found,
                             !.args = <<id>>,
                             !.oldStatus = found.status,
                             !.alert = resolve(found, "U1", notes, now)]]
    /\ UNCHANGED <<now, store, changes, history, ruleStore, rules, initialized, jobs, cache>>

\* resolveAlert: Alert.findOne, the 404 and 400 answers, alert.resolve(...);
\* args is the id asked for, outcome the status code of an early answer
ResolveAlert(id, notes) ==
    /\ proc["rs"].pc = "idle"
    /\ LET found == IF id \in DOMAIN store THEN store[id] ELSE NoAlert
       IN proc' = [proc EXCEPT !["rs"] =
                     IF found = NoAlert
                     THEN [IdleProc EXCEPT !.pc = "rsAnswer", !.args = <<id>>,
                                           !.outcome = "404"]
                     ELSE IF found.status \in {"RESOLVED", "AUTO_CLOSED"}
                     THEN [IdleProc EXCEPT !.pc = "rsAnswer", !.args = <<id>>,
                                           !.outcome = "400"]
                     ELSE [IdleProc EXCEPT
                             !.pc = "rsSave", !.orig = found,
                             !.args = <<id>>,
                             !.oldStatus = found.status,
                             !.alert = resolve(found, "U1", notes, now)]]
    /\ UNCHANGED <<now, store, changes, history, ruleStore, rules, initialized, jobs, cache>>

\* resolveAlert: alert.save()
SaveResolution ==
    /\ proc["rs"].pc = "rsSave"
    /\ store' = Save(store, proc["rs"].alert, proc["rs"].orig)
    /\ changes' = Changed(changes, store, store', proc["rs"].alert.alertId)
    /\ proc' = [proc EXCEPT !["rs"].pc = "rsLog", !["rs"].orig = proc["rs"].alert]
    /\ UNCHANGED <<now, history, ruleStore, rules, initialized, ops, jobs, cache>>

\* resolveAlert: AlertHistory.logTransition(..., oldStatus, 'RESOLVED', ...)
LogResolution ==
    /\ proc["rs"].pc = "rsLog"
    /\ history' = logTransition(history, proc["rs"].alert, proc["rs"].oldStatus,
                                "RESOLVED",
                                IF proc["rs"].alert.notes # ""
                                THEN proc["rs"].alert.notes
                                ELSE "Manually resolved", "USER")
    /\ cache' = invalidatePattern(invalidatePattern(cache, "alerts:"),
                                  "dashboard:")
    /\ proc' = [proc EXCEPT !["rs"] = IdleProc]
    /\ UNCHANGED <<now, store, changes, ruleStore, rules, initialized, ops, jobs>>

\* variant: the index was cleared before the rules were asked for
CatchAndClear(p) ==
    /\ \/ p = "cr" /\ proc[p].pc = "crLog"
       \/ p = "up" /\ proc[p].pc = "upSave"
       \/ p = "rs" /\ proc[p].pc \in {"rsSave", "rsLog"}
       \/ p = "ru" /\ proc[p].pc \in {"ruCreate", "ruSave", "ruDelete",
                                       "reload"}
    /\ rules' = IF proc[p].pc = "reload" THEN EmptyIndex ELSE rules
    /\ initialized' = IF proc[p].pc = "reload" THEN FALSE ELSE initialized
    /\ proc' = [proc EXCEPT ![p] = IdleProc]
    /\ UNCHANGED <<now, store, changes, history, ruleStore, ops, jobs, cache>>

\* catch (error) { next(error) } of the controllers
CatchInController(p) ==
    /\ \/ p = "cr" /\ proc[p].pc = "crLog"
       \/ p = "up" /\ proc[p].pc = "upSave"
       \/ p = "rs" /\ proc[p].pc \in {"rsSave", "rsLog"}
       \/ p = "ru" /\ proc[p].pc \in {"ruCreate", "ruSave", "ruDelete",
                                       "reload"}
    /\ proc' = [proc EXCEPT ![p] = IdleProc]
    /\ UNCHANGED <<now, store, changes, history, ruleStore, rules, initialized, ops, jobs, cache>>

----------------------------------------------------------------------------
(* Background jobs *)

\* the ids of S in ascending (timestamp, id) order when byTime, else by id
RECURSIVE Ordered(_, _, _)
Ordered(S, docs, byTime) ==
    IF S = {} THEN <<>>
    ELSE LET first == CHOOSE a \in S : \A b \in S :
                 IF byTime /\ docs[a].timestamp # docs[b].timestamp
                 THEN docs[a].timestamp < docs[b].timestamp
                 ELSE a <= b
         IN <<docs[first]>> \o Ordered(S \ {first}, docs, byTime)

Limit(found, n) == SubSeq(found, 1, IF Len(found) < n THEN Len(found) ELSE n)

\* Alert.find({status: {$in: ['OPEN','ESCALATED']}, $or: [...]}).limit(100)
FindForAutoClose(docs, t) ==
    Limit(Ordered({id \in DOMAIN docs :
                      /\ docs[id].status \in {"OPEN", "ESCALATED"}
                      /\ Unexpired(docs[id], t)}, docs, FALSE), BatchLimit)

\* variant: escalated alerts are fetched as well
FindForRuleEvaluationActive(docs, t) ==
    Limit(Ordered({id \in DOMAIN docs :
                      /\ docs[id].status \in {"OPEN", "ESCALATED"}
                      /\ Unexpired(docs[id], t)}, docs, TRUE), BatchLimit)

\* Alert.find({status: 'OPEN', $or: [...]}).sort({timestamp: 1}).limit(100)
FindForRuleEvaluation(docs, t) ==
    Limit(Ordered({id \in DOMAIN docs :
                      /\ docs[id].status = "OPEN"
                      /\ Unexpired(docs[id], t)}, docs, TRUE), BatchLimit)

\* if (alerts.length === 0) return; else processBatch(alerts)
StartBatch(locals, alerts) ==
    IF alerts = <<>>
    THEN [IdleProc EXCEPT !.pc = "done", !.outcome = "empty",
                          !.manual = locals.manual, !.first = locals.first]
    ELSE CallProcessAlert([IdleProc EXCEPT !.batch = alerts,
                                           !.total = Len(alerts),
                                           !.manual = locals.manual,
                                           !.first = locals.first,
                                           !.orig = Head(alerts)],
                          Head(alerts))

\* variant: start() schedules its two tasks whether running or not
startAgain(j) == [j EXCEPT !.isRunning = TRUE, !.jobs = @ + 2]

\* start(): nothing when running, else two tasks are scheduled
start(j) ==
    IF j.isRunning THEN j
    ELSE [j EXCEPT !.isRunning = TRUE, !.jobs = @ + 2]

\* stop(): every task stopped, jobs = []
stop(j) == [j EXCEPT !.jobs = 0, !.isRunning = FALSE]

\* the server starts the background jobs
Start ==
    /\ jobs' = start(jobs)
    /\ UNCHANGED <<now, store, changes, history, ruleStore, rules, initialized, proc, ops, cache>>

\* the server stops them on SIGTERM
Stop ==
    /\ jobs' = stop(jobs)
    /\ UNCHANGED <<now, store, changes, history, ruleStore, rules, initialized, proc, ops, cache>>

\* runAutoCloseJob up to Alert.find
runAutoCloseJob(manual) ==
    /\ proc["ac"].pc = "idle"
    /\ proc' = [proc EXCEPT !["ac"] = [IdleProc EXCEPT !.pc = "find",
                                                      !.manual = manual]]
    /\ UNCHANGED <<now, store, changes, history, ruleStore, rules, initialized, jobs, cache>>

\* the task scheduled by start() fires
RunAutoCloseJob == jobs.isRunning /\ runAutoCloseJob(FALSE)

\* triggerAutoClose(): await this.runAutoCloseJob()
triggerAutoClose == runAutoCloseJob(TRUE)

\* runAutoCloseJob: the answer of Alert.find
FindActiveAlerts ==
    /\ proc["ac"].pc = "find"
    /\ proc' = [proc EXCEPT !["ac"] =
                  StartBatch(proc["ac"], FindForAutoClose(store, now))]
    /\ UNCHANGED <<now, store, changes, history, ruleStore, rules, initialized, ops, jobs, cache>>

\* reloadRules up to Rule.find: cache.delete('rules:all'), a cache miss
reloadRules(p, manual) ==
    /\ cache' = delete(cache, "rules:all")
    /\ proc' = [proc EXCEPT ![p] = [IdleProc EXCEPT !.pc = "reload",
                                                   !.manual = manual]]

\* runRuleEvaluationJob up to ruleEngine.reloadRules()
runRuleEvaluationJob(manual) ==
    /\ proc["re"].pc = "idle"
    /\ reloadRules("re", manual)
    /\ UNCHANGED <<now, store, changes, history, ruleStore, rules, initialized, jobs>>

\* variant: the manual run goes on with the rules already loaded
triggerWithoutReload ==
    /\ proc["re"].pc = "idle"
    /\ proc' = [proc EXCEPT !["re"] = [IdleProc EXCEPT !.pc = "find",
                                                      !.manual = TRUE]]
    /\ UNCHANGED <<now, store, changes, history, ruleStore, rules, initialized, jobs, cache>>

\* the task scheduled by start() fires
RunRuleEvaluationJob == jobs.isRunning /\ runRuleEvaluationJob(FALSE)

\* triggerRuleEvaluation(): await this.runRuleEvaluationJob()
triggerRuleEvaluation == runRuleEvaluationJob(TRUE)

\* initialize: the store answers Rule.find({enabled: true})
FindRules(p) ==
    /\ p \in {"re", "ru"}
    /\ proc[p].pc = "reload"
    /\ proc' = [proc EXCEPT ![p].pc = "loaded",
                            ![p].found = FindEnabledRules(ruleStore)]
    /\ UNCHANGED <<now, store, changes, history, ruleStore, rules, initialized, ops, jobs, cache>>

\* variant: the index is cleared and only the first rule of the answer set
\* when others look at it
ApplyRulesPartly(p) ==
    /\ p \in {"re", "ru"}
    /\ proc[p].pc = "loaded"
    /\ rules' = SetAll(EmptyIndex,
                       SubSeq(proc[p].found, 1,
                              IF proc[p].found = <<>> THEN 0 ELSE 1))
    /\ initialized' = TRUE
    /\ cache' = IF p = "ru" THEN delete(cache, "rules:all")
                ELSE set(cache, "rules:all", proc[p].found)
    /\ proc' = [proc EXCEPT ![p] = IF p = "ru" THEN IdleProc
                                   ELSE [@ EXCEPT !.pc = "find",
                                                  !.found = <<>>]]
    /\ UNCHANGED <<now, store, changes, history, ruleStore, ops, jobs>>

\* initialize with the answer: cache.set, rules.clear(), rules.set for each;
\* the rule controller then deletes 'rules:all', the sweep goes on to find
ApplyRules(p) ==
    /\ p \in {"re", "ru"}
    /\ proc[p].pc = "loaded"
    /\ rules' = SetAll(EmptyIndex, proc[p].found)
    /\ initialized' = TRUE
    /\ cache' = IF p = "ru" THEN delete(cache, "rules:all")
                ELSE set(cache, "rules:all", proc[p].found)
    /\ proc' = [proc EXCEPT ![p] = IF p = "ru" THEN IdleProc
                                   ELSE [@ EXCEPT !.pc = "find",
                                                  !.found = <<>>]]
    /\ UNCHANGED <<now, store, changes, history, ruleStore, ops, jobs>>

\* runRuleEvaluationJob: the answer of Alert.find
FindOpenAlerts ==
    /\ proc["re"].pc = "find"
    /\ proc' = [proc EXCEPT !["re"] =
                  StartBatch(proc["re"], FindForRuleEvaluation(store, now))]
    /\ UNCHANGED <<now, store, changes, history, ruleStore, rules, initialized, ops, jobs, cache>>

\* variant: a failed alert is not counted
CountSuccesses(results, locals) ==
    IF locals.success
    THEN [results EXCEPT
            !.processed = @ + 1,
            !.escalated = IF locals.modified /\ locals.alert.status = "ESCALATED"
                          THEN @ + 1 ELSE @,
            !.autoClosed = IF locals.modified /\ locals.alert.status = "AUTO_CLOSED"
                           THEN @ + 1 ELSE @]
    ELSE results

\* processBatch: the result of one processAlert is counted
Count(results, locals) ==
    IF locals.success
    THEN [results EXCEPT
            !.processed = @ + 1,
            !.escalated = IF locals.modified /\ locals.alert.status = "ESCALATED"
                          THEN @ + 1 ELSE @,
            !.autoClosed = IF locals.modified /\ locals.alert.status = "AUTO_CLOSED"
                           THEN @ + 1 ELSE @]
    ELSE [results EXCEPT !.errors = @ + 1]

\* this.stats.<job>Runs++; this.stats.last<Job>Run = new Date()
UpdateStats(j, p, t) ==
    IF p = "ac"
    THEN [j EXCEPT !.stats.autoCloseRuns = @ + 1,
                   !.stats.lastAutoCloseRun = t]
    ELSE [j EXCEPT !.stats.ruleEvaluationRuns = @ + 1,
                   !.stats.lastRuleEvaluationRun = t]

\* processBatch: next alert of the batch; after the last one the run updates
\* the stats, invalidates 'dashboard:' and 'alerts:' and returns
NextInBatch(p) ==
    /\ p \in Sweeps
    /\ proc[p].pc = "ret"
    /\ LET results == Count(proc[p].results, proc[p])
           rest == Tail(proc[p].batch)
       IN IF rest = <<>>
          THEN /\ jobs' = UpdateStats(jobs, p, now)
               /\ cache' = invalidatePattern(
                             invalidatePattern(cache, "dashboard:"), "alerts:")
               /\ proc' = [proc EXCEPT ![p] =
                             [IdleProc EXCEPT !.pc = "done",
                                              !.outcome = "done",
                                              !.results = results,
                                              !.total = proc[p].total,
                                              !.manual = proc[p].manual,
                                              !.first = proc[p].first]]
          ELSE /\ proc' = [proc EXCEPT ![p] =
                             CallProcessAlert(
                               [@ EXCEPT !.batch = rest, !.results = results,
                                         !.orig = Head(rest)], Head(rest))]
               /\ UNCHANGED <<jobs, cache>>
    /\ UNCHANGED <<now, store, changes, history, ruleStore, rules, initialized, ops>>

\* variant: the catch also stops the scheduler
CatchAndStop(p) ==
    /\ p \in Sweeps
    /\ proc[p].pc \in {"find", "reload"}
    /\ jobs' = stop(jobs)
    /\ proc' = [proc EXCEPT ![p] = [IdleProc EXCEPT !.pc = "done",
                                                    !.outcome = "error",
                                                    !.manual = proc[p].manual]]
    /\ UNCHANGED <<now, store, changes, history, ruleStore, rules, initialized, ops, cache>>

\* catch (error) of runAutoCloseJob and runRuleEvaluationJob: Alert.find or
\* reloadRules has thrown
CatchInSweep(p) ==
    /\ p \in Sweeps
    /\ proc[p].pc \in {"find", "reload"}
    /\ proc' = [proc EXCEPT ![p] = [IdleProc EXCEPT !.pc = "done",
                                                    !.outcome = "error",
                                                    !.manual = proc[p].manual]]
    /\ UNCHANGED <<now, store, changes, history, ruleStore, rules, initialized, ops, jobs, cache>>

\* the promise of the run resolves: the scheduled task or the trigger that
\* awaited it goes on
ReturnFromRun(p) ==
    /\ p \in Sweeps
    /\ proc[p].pc = "done"
    /\ proc' = [proc EXCEPT ![p] = IdleProc]
    /\ UNCHANGED <<now, store, changes, history, ruleStore, rules, initialized, ops, jobs, cache>>

\* a run has completed with every alert of its batch processed, its promise
\* resolves and the scheduled task fires again at once
RunAgain(p) ==
    /\ p \in Sweeps
    /\ proc[p].pc = "done"
    /\ proc[p].outcome = "done"
    /\ proc[p].results.errors = 0
    /\ proc[p].first = 0
    /\ jobs.isRunning
    /\ proc' = [proc EXCEPT ![p] =
                  [IdleProc EXCEPT !.pc = IF p = "ac" THEN "find" ELSE "reload",
                                   !.first = proc[p].total]]
    /\ cache' = IF p = "ac" THEN cache ELSE delete(cache, "rules:all")
    /\ UNCHANGED <<now, store, changes, history, ruleStore, rules, initialized, ops, jobs>>

----------------------------------------------------------------------------
(* Rule controller *)

\* the stored rule with this ruleId
FindOneRule(rs, id) == CHOOSE r \in rs : r.ruleId = id

\* createRule up to Rule.create; ruleId is unique
CreateRule(rule) ==
    /\ proc["ru"].pc = "idle"
    /\ \A r \in ruleStore : r.ruleId # rule.ruleId
    /\ proc' = [proc EXCEPT !["ru"] = [IdleProc EXCEPT !.pc = "ruCreate",
                                                      !.rule = rule]]
    /\ UNCHANGED <<now, store, changes, history, ruleStore, rules, initialized, jobs, cache>>

\* updateRule: Rule.findOne, then the assignments to enabled and priority
UpdateRule(id, hasEnabled, enabled, hasPriority, priority) ==
    /\ proc["ru"].pc = "idle"
    /\ \E r \in ruleStore : r.ruleId = id
    /\ LET found == FindOneRule(ruleStore, id)
           rule == [found EXCEPT
                      !.enabled = IF hasEnabled THEN enabled ELSE @,
                      !.priority = IF hasPriority THEN priority ELSE @]
       IN proc' = [proc EXCEPT !["ru"] = [IdleProc EXCEPT !.pc = "ruSave",
                                                        !.rule = rule]]
    /\ UNCHANGED <<now, store, changes, history, ruleStore, rules, initialized, jobs, cache>>

\* toggleRule: Rule.findOne, then rule.enabled = !rule.enabled
ToggleRule(id) ==
    /\ proc["ru"].pc = "idle"
    /\ \E r \in ruleStore : r.ruleId = id
    /\ LET found == FindOneRule(ruleStore, id)
       IN proc' = [proc EXCEPT !["ru"] =
                     [IdleProc EXCEPT !.pc = "ruSave",
                                      !.rule = [found EXCEPT
                                                  !.enabled = ~found.enabled]]]
    /\ UNCHANGED <<now, store, changes, history, ruleStore, rules, initialized, jobs, cache>>

\* deleteRule: Rule.findOne
DeleteRule(id) ==
    /\ proc["ru"].pc = "idle"
    /\ \E r \in ruleStore : r.ruleId = id
    /\ proc' = [proc EXCEPT !["ru"] =
                  [IdleProc EXCEPT !.pc = "ruDelete",
                                   !.rule = FindOneRule(ruleStore, id)]]
    /\ UNCHANGED <<now, store, changes, history, ruleStore, rules, initialized, jobs, cache>>

\* Rule.create, rule.save() or rule.deleteOne() is applied, then the
\* controller calls ruleEngine.reloadRules()
WriteRule ==
    /\ proc["ru"].pc \in {"ruCreate", "ruSave", "ruDelete"}
    /\ LET rule == proc["ru"].rule
           others == {r \in ruleStore : r.ruleId # rule.ruleId}
       IN ruleStore' = IF proc["ru"].pc = "ruDelete" THEN others
                       ELSE others \cup {rule}
    /\ reloadRules("ru", FALSE)
    /\ UNCHANGED <<now, store, changes, history, rules, initialized, ops, jobs>>

----------------------------------------------------------------------------
(* Cached views: getOverview and getAlerts *)

\* the response of getOverview: counts by severity of the active alerts,
\* counts by status, total, active, escalations of the last 24 hours
Overview(docs, t) ==
    LET count(S) == Cardinality({id \in DOMAIN docs : docs[id] \in S})
        withStatus(st) == {docs[id] : id \in {i \in DOMAIN docs :
                                                docs[i].status = st}}
        status == [st \in ActiveStatuses \cup TerminalStatuses |->
                     count(withStatus(st))]
    IN [severity |-> [sv \in {"CRITICAL", "WARNING", "INFO"} |->
                        Cardinality({id \in DOMAIN docs :
                            /\ docs[id].status \in {"OPEN", "ESCALATED"}
                            /\ docs[id].severity = sv})],
        status |-> status,
        totalAlerts |-> Cardinality(DOMAIN docs),
        activeAlerts |-> status["OPEN"] + status["ESCALATED"],
        recentEscalations |->
            Cardinality({id \in DOMAIN docs :
                /\ docs[id].status = "ESCALATED"
                /\ docs[id].escalatedAt >= t - 24 * 60})]

Reverse(seq) == [i \in 1..Len(seq) |-> seq[Len(seq) + 1 - i]]

\* the response of getAlerts without a filter: the first page by descending
\* timestamp, and the total
AlertList(docs) ==
    [alerts |-> Limit(Reverse(Ordered(DOMAIN docs, docs, TRUE)), PageLimit),
     total |-> Cardinality(DOMAIN docs)]

\* getOverview: a cache miss (a hit is answered from the cache), up to the
\* queries
GetOverview ==
    /\ proc["ov"].pc = "idle"
    /\ "dashboard:overview" \notin DOMAIN cache
    /\ proc' = [proc EXCEPT !["ov"] = [IdleProc EXCEPT !.pc = "ovQuery"]]
    /\ UNCHANGED <<now, store, changes, history, ruleStore, rules, initialized, jobs, cache>>

\* getOverview: the queries answer, cacheManager.set(cacheKey, response, 120)
CacheOverview ==
    /\ proc["ov"].pc = "ovQuery"
    /\ cache' = set(cache, "dashboard:overview", Overview(store, now))
    /\ proc' = [proc EXCEPT !["ov"] = IdleProc]
    /\ UNCHANGED <<now, store, changes, history, ruleStore, rules, initialized, ops, jobs>>

\* getAlerts: a cache miss, up to the queries
GetAlerts ==
    /\ proc["ls"].pc = "idle"
    /\ "alerts:list" \notin DOMAIN cache
    /\ proc' = [proc EXCEPT !["ls"] = [IdleProc EXCEPT !.pc = "lsQuery"]]
    /\ UNCHANGED <<now, store, changes, history, ruleStore, rules, initialized, jobs, cache>>

\* getAlerts: the queries answer, cacheManager.set(cacheKey, response, 60)
CacheAlerts ==
    /\ proc["ls"].pc = "lsQuery"
    /\ cache' = set(cache, "alerts:list", AlertList(store))
    /\ proc' = [proc EXCEPT !["ls"] = IdleProc]
    /\ UNCHANGED <<now, store, changes, history, ruleStore, rules, initialized, ops, jobs>>

----------------------------------------------------------------------------
(* A caller that loads one alert and hands the same object to processAlert *)
(* twice in sequence                                                        *)

ProcessTwice(id) ==
    /\ proc["tw"].pc = "idle"
    /\ id \in DOMAIN store
    /\ proc' = [proc EXCEPT !["tw"] =
                  CallProcessAlert([IdleProc EXCEPT !.orig = store[id],
                                                    !.calls = 1], store[id])]
    /\ UNCHANGED <<now, store, changes, history, ruleStore, rules, initialized, jobs, cache>>

ProcessAgain ==
    /\ proc["tw"].pc = "ret"
    /\ proc["tw"].calls = 1
    /\ proc' = [proc EXCEPT !["tw"] =
                  CallProcessAlert([@ EXCEPT !.calls = 2,
                                             !.prev = proc["tw"].alert,
                                             !.prevLogged = proc["tw"].logged,
                                             !.prevSuccess = proc["tw"].success],
                                   proc["tw"].alert)]
    /\ UNCHANGED <<now, store, changes, history, ruleStore, rules, initialized, ops, jobs, cache>>

ProcessedTwice ==
    /\ proc["tw"].pc = "ret"
    /\ proc["tw"].calls = 2
    /\ proc' = [proc EXCEPT !["tw"] = IdleProc]
    /\ UNCHANGED <<now, store, changes, history, ruleStore, rules, initialized, ops, jobs, cache>>

\* the expiry horizon passes; the TTL monitor removes an expired document
\* within about a minute of its expiry, until then it is stored
Expire ==
    /\ now' = now + ExpiryDays * 24 * 60
    /\ UNCHANGED <<store, changes, history, ruleStore, rules, initialized, proc, ops, jobs, cache>>

\* the clock advances
Tick ==
    /\ now' = now + 1
    /\ UNCHANGED <<store, changes, history, ruleStore, rules, initialized, proc, ops, jobs, cache>>

----------------------------------------------------------------------------
(* Direct calls of the document methods: alert.escalate(reason),           *)
(* alert.autoClose(reason), alert.resolve(userId, notes) on the document   *)
(* the caller holds                                                        *)

CallMethod(name, args, result) ==
    /\ proc["fn"].pc \in {"held", "escalate", "autoClose", "resolve"}
    /\ proc' = [proc EXCEPT !["fn"] =
          [@ EXCEPT !.pc = name, !.args = args, !.at = now,
                    !.orig = proc["fn"].alert, !.alert = result]]
    /\ UNCHANGED <<now, store, changes, history, ruleStore, rules, initialized, ops, jobs, cache>>

CallEscalate(reason) ==
    CallMethod("escalate", <<reason>>, escalate(proc["fn"].alert, reason, now))

CallAutoClose(reason) ==
    CallMethod("autoClose", <<reason>>, autoClose(proc["fn"].alert, reason, now))

CallResolve(userId, notes) ==
    CallMethod("resolve", <<userId, notes>>,
               resolve(proc["fn"].alert, userId, notes, now))

\* the index evaluateAlert looks the rule up in: the loaded one, or the one
\* initialize() builds from the cached rules or from the stored ones
IndexAtCall ==
    IF initialized THEN rules
    ELSE IF "rules:all" \in DOMAIN cache
         THEN SetAll(EmptyIndex, cache["rules:all"])
         ELSE initialize(ruleStore)

\* variant: evaluateAlert carries out on the alert what it has found
CallEvaluateAndAct ==
    /\ proc["fn"].pc = "held"
    /\ LET evaluation == evaluateAlert(proc["fn"].alert, IndexAtCall, store, now)
       IN proc' = [proc EXCEPT !["fn"] =
             [@ EXCEPT !.pc = "evaluate", !.at = now,
                       !.ev = evaluation,
                       !.alert = IF evaluation.shouldEscalate
                                 THEN escalate(@, evaluation.reason, now)
                                 ELSE IF evaluation.shouldAutoClose
                                 THEN autoClose(@, evaluation.reason, now)
                                 ELSE @,
                       !.queries = CountQueries(IndexAtCall, proc["fn"].alert)]]
    /\ rules' = IndexAtCall
    /\ initialized' = TRUE
    /\ cache' = IF initialized \/ "rules:all" \in DOMAIN cache THEN cache
                ELSE set(cache, "rules:all", FindEnabledRules(ruleStore))
    /\ UNCHANGED <<now, store, changes, history, ruleStore, ops, jobs>>

\* ruleEngine.evaluateAlert(alert) on the document the caller holds; the
\* index is loaded first when it is not
CallEvaluateAlert ==
    /\ proc["fn"].pc = "held"
    /\ proc' = [proc EXCEPT !["fn"] =
          [@ EXCEPT !.pc = "evaluate", !.at = now,
                    !.ev = evaluateAlert(proc["fn"].alert, IndexAtCall, store, now),
                    !.queries = CountQueries(IndexAtCall, proc["fn"].alert)]]
    /\ rules' = IndexAtCall
    /\ initialized' = TRUE
    /\ cache' = IF initialized \/ "rules:all" \in DOMAIN cache THEN cache
                ELSE set(cache, "rules:all", FindEnabledRules(ruleStore))
    /\ UNCHANGED <<now, store, changes, history, ruleStore, ops, jobs>>

----------------------------------------------------------------------------
(* Inputs *)

Plain(driver) == Metadata(driver, NoNum, NoNum)
Normalized(driver) == Metadata(driver, 1, 2)
Patch == [speed |-> 1, speedLimit |-> 2]

\* the rule of the concurrent runs: one active alert is enough to escalate
RuleStore == {Rule("R1", "overspeed", TRUE, 10, 1, 2, "speed_normalized", 0)}

\* the rule of the sequential runs: all three conditions
SeqRuleStore ==
    {Rule("R4", "overspeed", TRUE, 10, 2, 1, "speed_normalized", 1),
     Rule("R5", "compliance", TRUE, 5, 1, 2, "", 1)}

\* the rule of the escalation scenario
ScenarioRuleStore == {Rule("R3", "overspeed", TRUE, 10, 3, 60, "", 0)}

\* two rules of one source type: priorities 10 and 5
SameTypeRuleStore ==
    {Rule("R1", "overspeed", TRUE, 10, 1, 2, "speed_normalized", 0),
     Rule("R2", "overspeed", TRUE, 5, 2, 2, "", 0)}

\* the rule an administrator adds
NewRules == {Rule("R6", "overspeed", TRUE, 7, 1, 2, "", 0)}

RuleIds == {"R1", "R2", "R6"}

\* a rule whose window is the expiry horizon
ExpiryRuleStore ==
    {Rule("R8", "overspeed", TRUE, 10, 2, ExpiryDays * 24 * 60, "", 0)}

\* the rule of the batches: escalation at two alerts, closing after a minute
BatchRuleStore == {Rule("R7", "overspeed", TRUE, 10, 2, 1, "", 1)}

----------------------------------------------------------------------------
(* Specifications *)

InitWith(ruleDocs) ==
    /\ now = 0
    /\ store = [id \in {} |-> NoAlert]
    /\ history = <<>>
    /\ ruleStore = ruleDocs
    /\ rules = EmptyIndex
    /\ initialized = FALSE
    /\ proc = [p \in Procs |-> IdleProc]
    /\ changes = <<>>
    /\ ops = 0
    /\ jobs = start(NewBackgroundJobs)
    /\ cache = EmptyCache

\* steps of processAlert and of its callers after their first store call
Continue ==
    \/ LogCreation
    \/ SaveUpdate
    \/ SaveResolution
    \/ LogResolution
    \/ FindActiveAlerts
    \/ FindOpenAlerts
    \/ \E p \in Procs :
          \/ FindRules(p)
          \/ ApplyRules(p)
          \/ Evaluate(p)
          \/ SaveEscalation(p)
          \/ LogEscalation(p)
          \/ SaveAutoClose(p)
          \/ LogAutoClose(p)
          \/ Respond(p)
          \/ NextInBatch(p)
          \/ ReturnFromRun(p)

\* a store call throws
Throw ==
    \/ \E p \in Procs :
          \/ CatchInSweep(p)
          \/ CatchInProcessAlert(p)
          \/ CatchInController(p)

Init == InitWith(RuleStore)

\* every interleaving of the controllers and the sweeps at their awaits,
\* at most MaxOps operations started
Next ==
    \/ \E m \in {Plain("D1"), Normalized("D1")} :
          /\ ops < MaxOps /\ ops' = ops + 1
          /\ Cardinality(DOMAIN store) < MaxAlerts
          /\ CreateAlert("overspeed", "", m)
    \/ \E id \in DOMAIN store, h \in BOOLEAN :
          ops < MaxOps /\ ops' = ops + 1 /\ UpdateAlert(id, h, Patch, "")
    \/ \E id \in DOMAIN store :
          ops < MaxOps /\ ops' = ops + 1 /\ ResolveAlert(id, "checked")
    \/ ops < MaxOps /\ ops' = ops + 1 /\ RunAutoCloseJob
    \/ ops < MaxOps /\ ops' = ops + 1 /\ RunRuleEvaluationJob
    \/ Continue
    \/ Throw

Spec == Init /\ [][Next]_vars

CompletedRuns == jobs.stats.autoCloseRuns + jobs.stats.ruleEvaluationRuns

\* no store call is pending: store calls take less than a minute
Quiescent == \A p \in Procs : proc[p].pc \in {"idle", "ret"}


InitSeq == InitWith(SeqRuleStore)

\* one operation at a time, each run to completion and every store call
\* answering, the clock advancing between operations and between two calls
\* of processAlert
NextSeq ==
    \/ Quiescent /\ now < MaxTime /\ Tick
    \/ \E t \in SourceTypes, m \in {Plain("D1"), Plain("D2"), Normalized("D1")} :
          /\ AllIdle /\ UNCHANGED ops
          /\ Cardinality(DOMAIN store) < MaxSeqAlerts
          /\ t = "compliance" => m = Plain("D1")
          /\ CreateAlert(t, "", m)
    \/ \E id \in DOMAIN store :
          AllIdle /\ UNCHANGED ops /\ UpdateAlert(id, TRUE, Patch, "")
    \/ \E id \in DOMAIN store :
          AllIdle /\ UNCHANGED ops /\ ResolveAlert(id, "checked")
    \/ /\ AllIdle /\ UNCHANGED ops
       /\ CompletedRuns < MaxRuns
       /\ RunAutoCloseJob
    \/ /\ AllIdle /\ UNCHANGED ops
       /\ CompletedRuns < MaxRuns
       /\ RunRuleEvaluationJob
    \/ \E id \in DOMAIN store :
          AllIdle /\ UNCHANGED ops /\ ProcessTwice(id)
    \/ ProcessAgain
    \/ ProcessedTwice
    \/ Continue

SpecSeq == InitSeq /\ [][NextSeq]_vars

InitRules == InitWith(SameTypeRuleStore)

\* the rule controller next to the rule-evaluation sweep and one alert, at
\* most MaxOps operations started, every store call answering
NextRules ==
    \/ \E r \in NewRules :
          ops < MaxOps /\ ops' = ops + 1 /\ CreateRule(r)
    \/ \E id \in RuleIds :
          ops < MaxOps /\ ops' = ops + 1 /\ UpdateRule(id, FALSE, TRUE, TRUE, 1)
    \/ \E id \in RuleIds :
          ops < MaxOps /\ ops' = ops + 1 /\ ToggleRule(id)
    \/ \E id \in RuleIds :
          ops < MaxOps /\ ops' = ops + 1 /\ DeleteRule(id)
    \/ /\ ops < MaxOps /\ ops' = ops + 1
       /\ Cardinality(DOMAIN store) < MaxAlerts
       /\ CreateAlert("overspeed", "", Plain("D1"))
    \/ ops < MaxOps /\ ops' = ops + 1 /\ RunRuleEvaluationJob
    \/ WriteRule
    \/ LogCreation
    \/ FindOpenAlerts
    \/ \E p \in {"cr", "re", "ru"} :
          \/ FindRules(p)
          \/ ApplyRules(p)
          \/ Evaluate(p)
          \/ SaveEscalation(p)
          \/ LogEscalation(p)
          \/ Respond(p)
          \/ NextInBatch(p)
          \/ ReturnFromRun(p)

SpecRules == InitRules /\ [][NextRules]_vars

\* the state after construction, before the server calls start()
InitJobs ==
    /\ now = 0
    /\ store = [id \in {} |-> NoAlert]
    /\ history = <<>>
    /\ ruleStore = RuleStore
    /\ rules = EmptyIndex
    /\ initialized = FALSE
    /\ proc = [p \in Procs |-> IdleProc]
    /\ changes = <<>>
    /\ ops = 0
    /\ jobs = NewBackgroundJobs
    /\ cache = EmptyCache

\* the scheduler, the scheduled and the manually triggered sweeps and
\* createAlert, one operation at a time, store calls failing
NextJobs ==
    \/ Start
    \/ Stop
    \/ \E m \in {Plain("D1"), Normalized("D1")} :
          /\ AllIdle /\ UNCHANGED ops
          /\ Cardinality(DOMAIN store) < MaxJobsAlerts
          /\ CreateAlert("overspeed", "", m)
    \/ AllIdle /\ UNCHANGED ops /\ CompletedRuns < MaxRuns /\ RunAutoCloseJob
    \/ /\ AllIdle /\ UNCHANGED ops /\ CompletedRuns < MaxRuns
       /\ RunRuleEvaluationJob
    \/ AllIdle /\ UNCHANGED ops /\ CompletedRuns < MaxRuns /\ triggerAutoClose
    \/ /\ AllIdle /\ UNCHANGED ops /\ CompletedRuns < MaxRuns
       /\ triggerRuleEvaluation
    \/ LogCreation
    \/ FindActiveAlerts
    \/ FindOpenAlerts
    \/ \E p \in {"cr", "ac", "re"} :
          \/ FindRules(p)
          \/ ApplyRules(p)
          \/ Evaluate(p)
          \/ SaveEscalation(p)
          \/ LogEscalation(p)
          \/ SaveAutoClose(p)
          \/ LogAutoClose(p)
          \/ Respond(p)
          \/ NextInBatch(p)
          \/ ReturnFromRun(p)
          \/ CatchInSweep(p)
          \/ CatchInProcessAlert(p)
          \/ CatchInController(p)

SpecJobs == InitJobs /\ [][NextJobs]_vars

InitBatch == InitWith(BatchRuleStore)

\* more alerts than one batch holds, some of a source type without a rule,
\* some past their expiry, the sweeps run one after the other and twice in a
\* row, every store call answering
NextBatch ==
    \/ Quiescent /\ AllIdle /\ now < MaxBatchTime /\ Tick
    \/ AllIdle /\ now < MaxHorizons * ExpiryDays * 24 * 60 /\ Expire
    \/ \E t \in SourceTypes, d \in Drivers :
          /\ AllIdle /\ UNCHANGED ops
          /\ Cardinality(DOMAIN store) < MaxBatchAlerts
          /\ t = "compliance" => d = "D1"
          /\ CreateAlert(t, "", Plain(d))
    \/ AllIdle /\ UNCHANGED ops /\ CompletedRuns < MaxRuns /\ RunAutoCloseJob
    \/ /\ AllIdle /\ UNCHANGED ops /\ CompletedRuns < MaxRuns
       /\ RunRuleEvaluationJob
    \/ LogCreation
    \/ FindActiveAlerts
    \/ FindOpenAlerts
    \/ \E p \in {"cr", "ac", "re"} :
          \/ RunAgain(p)
          \/ FindRules(p)
          \/ ApplyRules(p)
          \/ Evaluate(p)
          \/ SaveEscalation(p)
          \/ LogEscalation(p)
          \/ SaveAutoClose(p)
          \/ LogAutoClose(p)
          \/ Respond(p)
          \/ NextInBatch(p)
          \/ ReturnFromRun(p)

SpecBatch == InitBatch /\ [][NextBatch]_vars

InitExpiry == InitWith(ExpiryRuleStore)

\* alerts created before and after the expiry horizon has passed, the sweeps
\* in between, one operation at a time, every store call answering
NextExpiry ==
    \/ AllIdle /\ now < MaxHorizons * ExpiryDays * 24 * 60 /\ Expire
    \/ \E d \in Drivers :
          /\ AllIdle /\ UNCHANGED ops
          /\ Cardinality(DOMAIN store) < MaxExpiryAlerts
          /\ CreateAlert("overspeed", "", Plain(d))
    \/ \E id \in DOMAIN store :
          AllIdle /\ UNCHANGED ops /\ ResolveAlert(id, "checked")
    \/ AllIdle /\ UNCHANGED ops /\ CompletedRuns < MaxRuns /\ RunAutoCloseJob
    \/ /\ AllIdle /\ UNCHANGED ops /\ CompletedRuns < MaxRuns
       /\ RunRuleEvaluationJob
    \/ LogCreation
    \/ SaveResolution
    \/ LogResolution
    \/ FindActiveAlerts
    \/ FindOpenAlerts
    \/ \E p \in {"cr", "rs", "ac", "re"} :
          \/ FindRules(p)
          \/ ApplyRules(p)
          \/ Evaluate(p)
          \/ SaveEscalation(p)
          \/ LogEscalation(p)
          \/ Respond(p)
          \/ NextInBatch(p)
          \/ ReturnFromRun(p)

SpecExpiry == InitExpiry /\ [][NextExpiry]_vars

InitCache == InitWith(RuleStore)

\* the alert controllers, the sweeps and the cached views, one operation at
\* a time, every store call answering
NextCache ==
    \/ \E m \in {Plain("D1"), Normalized("D1")} :
          /\ AllIdle /\ UNCHANGED ops
          /\ Cardinality(DOMAIN store) < MaxCacheAlerts
          /\ CreateAlert("overspeed", "", m)
    \/ \E id \in DOMAIN store :
          AllIdle /\ UNCHANGED ops /\ UpdateAlert(id, TRUE, Patch, "")
    \/ \E id \in 1..MaxCacheAlerts :
          AllIdle /\ UNCHANGED ops /\ ResolveAlert(id, "checked")
    \/ AllIdle /\ UNCHANGED ops /\ CompletedRuns < MaxRuns /\ RunAutoCloseJob
    \/ /\ AllIdle /\ UNCHANGED ops /\ CompletedRuns < MaxRuns
       /\ RunRuleEvaluationJob
    \/ AllIdle /\ UNCHANGED ops /\ GetOverview
    \/ AllIdle /\ UNCHANGED ops /\ GetAlerts
    \/ CacheOverview
    \/ CacheAlerts
    \/ Continue

SpecCache == InitCache /\ [][NextCache]_vars

InitScenario == InitWith(ScenarioRuleStore)

\* alerts created one after the other, every store call answering
NextScenario ==
    \/ Quiescent /\ now < MaxScenarioTime /\ Tick
    \/ \E t \in SourceTypes, d \in Drivers, s \in {"", "WARNING"} :
          /\ AllIdle /\ UNCHANGED ops
          /\ Cardinality(DOMAIN store) < MaxScenarioAlerts
          /\ t = "compliance" => d = "D1" /\ s = ""
          /\ CreateAlert(t, s, Plain(d))
    \/ \E id \in DOMAIN store :
          AllIdle /\ UNCHANGED ops /\ ResolveAlert(id, "checked")
    \/ LogCreation
    \/ SaveResolution
    \/ LogResolution
    \/ \E p \in {"cr", "rs"} :
          \/ Evaluate(p)
          \/ SaveEscalation(p)
          \/ LogEscalation(p)
          \/ Respond(p)

SpecScenario == InitScenario /\ [][NextScenario]_vars

InitLoad == InitWith(RuleStore)

\* the rule controller, createAlert and the two sweeps, one operation at a
\* time, every store call failing or answering
NextLoad ==
    \/ \E id \in RuleIds : AllIdle /\ UNCHANGED ops /\ ToggleRule(id)
    \/ \E m \in {Plain("D1"), Normalized("D1")} :
          /\ AllIdle /\ UNCHANGED ops
          /\ Cardinality(DOMAIN store) < MaxLoadAlerts
          /\ CreateAlert("overspeed", "", m)
    \/ AllIdle /\ UNCHANGED ops /\ CompletedRuns < MaxRuns /\ RunAutoCloseJob
    \/ /\ AllIdle /\ UNCHANGED ops /\ CompletedRuns < MaxRuns
       /\ RunRuleEvaluationJob
    \/ WriteRule
    \/ LogCreation
    \/ FindActiveAlerts
    \/ FindOpenAlerts
    \/ \E p \in {"cr", "ac", "re", "ru"} :
          \/ FindRules(p)
          \/ ApplyRules(p)
          \/ Evaluate(p)
          \/ SaveEscalation(p)
          \/ LogEscalation(p)
          \/ SaveAutoClose(p)
          \/ LogAutoClose(p)
          \/ Respond(p)
          \/ NextInBatch(p)
          \/ ReturnFromRun(p)
          \/ CatchInSweep(p)
          \/ CatchInProcessAlert(p)
          \/ CatchInController(p)

SpecLoad == InitLoad /\ [][NextLoad]_vars

\* what a run works on and leaves behind: the clock, the stored alerts and
\* the changes made to them, the history, the rules, the scheduler with its
\* stats, the cache
Surroundings ==
    [now |-> now, store |-> store, changes |-> changes, history |-> history,
     ruleStore |-> ruleStore, rules |-> rules, initialized |-> initialized,
     jobs |-> jobs, cache |-> cache]

\* the store calls of a run: the queries of the sweep and, for the n-th
\* alert of its batch, the calls of processAlert
StoreCalls ==
    [pc : {"find", "reload", "eval", "escSave", "escLog", "closeSave",
           "closeLog"},
     n : 0 .. MaxTriggerAlerts - 1]

NoFailure == [pc |-> "", n |-> 0]

\* the sweep p is at the store call that the failure pattern lets throw
Fails(p) ==
    /\ ops.plan.pc = proc[p].pc
    /\ ops.plan.n = proc[p].total - Len(proc[p].batch)
    /\ proc[p].pc = "eval" => EvaluationQueries(p)

\* in this specification ops keeps the comparison of the two runs: its
\* phase, the sweep, the failure pattern, the surroundings before the manual
\* run and after it
InitTrigger ==
    /\ now = 0
    /\ store = [id \in {} |-> NoAlert]
    /\ history = <<>>
    /\ ruleStore = SeqRuleStore
    /\ rules = EmptyIndex
    /\ initialized = FALSE
    /\ proc = [p \in Procs |-> IdleProc]
    /\ changes = <<>>
    /\ ops = [phase |-> "before", sweep |-> "", plan |-> NoFailure,
              before |-> <<>>, after |-> <<>>]
    /\ jobs = start(NewBackgroundJobs)
    /\ cache = EmptyCache

\* the surroundings are those from which the manual run started; the
\* scheduled run is to start from them
StartOver ==
    /\ ops.phase = "manual"
    /\ proc[ops.sweep].pc = "done"
    /\ now' = ops.before.now
    /\ store' = ops.before.store
    /\ changes' = ops.before.changes
    /\ history' = ops.before.history
    /\ ruleStore' = ops.before.ruleStore
    /\ rules' = ops.before.rules
    /\ initialized' = ops.before.initialized
    /\ jobs' = ops.before.jobs
    /\ cache' = ops.before.cache
    /\ proc' = [p \in Procs |-> IdleProc]
    /\ ops' = [ops EXCEPT !.phase = "between", !.after = Surroundings]

\* alerts are created and the overview is cached, then one sweep is
\* triggered manually and runs under a failure pattern; the scheduled run of
\* the same sweep starts from the same surroundings under the same pattern
NextTrigger ==
    \/ ops.phase = "before" /\ AllIdle /\ now < MaxTriggerTime /\ Tick
    \/ \E m \in {Plain("D1"), Normalized("D1")} :
          /\ ops.phase = "before" /\ AllIdle /\ UNCHANGED ops
          /\ Cardinality(DOMAIN store) < MaxTriggerAlerts
          /\ CreateAlert("overspeed", "", m)
    \/ ops.phase = "before" /\ AllIdle /\ UNCHANGED ops /\ GetOverview
    \/ CacheOverview
    \/ LogCreation
    \/ \E plan \in StoreCalls \cup {NoFailure} :
          /\ ops.phase = "before" /\ AllIdle
          /\ ops' = [ops EXCEPT !.phase = "manual", !.sweep = "ac",
                                !.plan = plan, !.before = Surroundings]
          /\ triggerAutoClose
    \/ \E plan \in StoreCalls \cup {NoFailure} :
          /\ ops.phase = "before" /\ AllIdle
          /\ ops' = [ops EXCEPT !.phase = "manual", !.sweep = "re",
                                !.plan = plan, !.before = Surroundings]
          /\ triggerRuleEvaluation
    \/ StartOver
    \/ /\ ops.phase = "between" /\ ops.sweep = "ac"
       /\ ops' = [ops EXCEPT !.phase = "scheduled"]
       /\ RunAutoCloseJob
    \/ /\ ops.phase = "between" /\ ops.sweep = "re"
       /\ ops' = [ops EXCEPT !.phase = "scheduled"]
       /\ RunRuleEvaluationJob
    \/ ~Fails("ac") /\ FindActiveAlerts
    \/ ~Fails("re") /\ FindOpenAlerts
    \/ ~Fails("re") /\ FindRules("re")
    \/ ApplyRules("re")
    \/ \E p \in {"cr"} :
          \/ Evaluate(p)
          \/ SaveEscalation(p)
          \/ LogEscalation(p)
          \/ SaveAutoClose(p)
          \/ LogAutoClose(p)
          \/ Respond(p)
    \/ \E p \in Sweeps :
          \/ ~Fails(p) /\ Evaluate(p)
          \/ ~Fails(p) /\ SaveEscalation(p)
          \/ ~Fails(p) /\ LogEscalation(p)
          \/ ~Fails(p) /\ SaveAutoClose(p)
          \/ ~Fails(p) /\ LogAutoClose(p)
          \/ NextInBatch(p)
          \/ Fails(p) /\ CatchInSweep(p)
          \/ Fails(p) /\ CatchInProcessAlert(p)
          \/ ops.phase = "scheduled" /\ ReturnFromRun(p)

SpecTrigger == InitTrigger /\ [][NextTrigger]_vars

\* one alert more than a batch holds
MaxFairAlerts == BatchLimit + 1

InitFair == InitWith(BatchRuleStore)

\* the scheduled task of the sweep fires, or the run it started goes on
Sweep(p) ==
    \/ /\ p = "ac" /\ AllIdle /\ UNCHANGED ops
       /\ jobs.stats.autoCloseRuns < MaxFairRuns
       /\ RunAutoCloseJob
    \/ /\ p = "re" /\ AllIdle
       /\ ops < MaxRuns /\ ops' = ops + 1
       /\ RunRuleEvaluationJob
    \/ p = "ac" /\ FindActiveAlerts
    \/ p = "re" /\ FindOpenAlerts
    \/ FindRules(p)
    \/ ApplyRules(p)
    \/ p \in Sweeps /\ Evaluate(p)
    \/ p \in Sweeps /\ SaveEscalation(p)
    \/ p \in Sweeps /\ LogEscalation(p)
    \/ p \in Sweeps /\ SaveAutoClose(p)
    \/ p \in Sweeps /\ LogAutoClose(p)
    \/ NextInBatch(p)
    \/ ReturnFromRun(p)

\* createAlert goes on after Alert.create
Creation ==
    \/ LogCreation
    \/ Evaluate("cr")
    \/ SaveEscalation("cr")
    \/ LogEscalation("cr")
    \/ Respond("cr")

\* alerts with and without a rule are created, one more than a batch holds
\* (none is old enough to be closed when it is created), then the clock
\* advances; the sweeps run one after the other, before and after, again
\* and again, every store call answering
NextFair ==
    \/ AllIdle /\ now < MaxFairTime /\ Tick
    \/ \E t \in SourceTypes :
          /\ AllIdle /\ UNCHANGED ops
          /\ now < MaxFairTime
          /\ Cardinality(DOMAIN store) < MaxFairAlerts
          /\ CreateAlert(t, "", Plain("D1"))
    \/ Creation
    \/ Sweep("ac")
    \/ Sweep("re")

\* each cron task fires when it can and a run that has started goes on: weak
\* fairness of both sweeps; every store call answers, so a createAlert that
\* has started goes on as well. ops counts the runs of the rule evaluation
\* sweep, the stats count those of the auto-close sweep that found alerts
SpecFair ==
    /\ InitFair
    /\ [][NextFair]_vars
    /\ WF_vars(Creation)
    /\ WF_vars(Sweep("ac"))
    /\ WF_vars(Sweep("re"))

\* a new document of any severity in the hands of the caller
InitMethods ==
    /\ now = 0
    /\ store = [id \in {} |-> NoAlert]
    /\ history = <<>>
    /\ ruleStore = {}
    /\ rules = EmptyIndex
    /\ initialized = FALSE
    /\ \E severity \in {"", "WARNING", "CRITICAL"} :
          proc = [p \in Procs |->
                    IF p = "fn"
                    THEN [IdleProc EXCEPT !.pc = "held",
                            !.alert = NewAlert(1, "overspeed", severity, Plain("D1"), 0)]
                    ELSE IdleProc]
    /\ changes = <<>>
    /\ ops = 0
    /\ jobs = NewBackgroundJobs
    /\ cache = EmptyCache

\* the three methods in every order, at every time
NextMethods ==
    \/ now < MaxMethodTime /\ Tick
    \/ \E reason \in {"undefined", "", "count"} : CallEscalate(reason)
    \/ \E reason \in {"aged", "condition"} : CallAutoClose(reason)
    \/ \E userId \in {"U1", "U2"}, notes \in {"undefined", "checked"} :
          CallResolve(userId, notes)

SpecMethods == InitMethods /\ [][NextMethods]_vars

\* metadata maps: speed and speedLimit there or not, a feedback rating,
\* documentValid of every kind with an expiry date or none, a flag
EvaluateMetadata ==
    {[Plain("D1") EXCEPT !.speed = s, !.speedLimit = l] :
        s \in {NoNum, 1, 3}, l \in {NoNum, 2}}
    \cup {[Plain("D1") EXCEPT !.feedbackRating = f] : f \in {2, 3}}
    \cup {[Plain("D1") EXCEPT !.documentValid = v, !.expiryDate = x] :
            v \in {"undefined", "true", "false", "'true'"},
            x \in {NoTime} \cup 0..(MaxEvaluateTime + 1)}
    \cup {[Plain("D1") EXCEPT !.trueFlags = {"flagged"}]}

CloseConditions ==
    {"", "document_valid", "speed_normalized", "feedback_improved",
     "documentValid", "flagged"}

\* rules of every combination of conditions, and one that is disabled
EvaluateRules ==
    {Rule("R9", "overspeed", TRUE, 10, count, window, closeIf, closeAfter) :
        count \in {0, 2}, window \in {0, 1}, closeIf \in CloseConditions,
        closeAfter \in {0, 1}}
    \cup {Rule("R9", "overspeed", FALSE, 10, 2, 1, "speed_normalized", 1)}

\* the arguments of evaluateAlert: an alert of any status, source type,
\* metadata and age, stored alone or with a second active alert of its
\* driver, and the index evaluateAlert looks the rule up in, of no rule or of
\* one rule for overspeed (a disabled one as well: the lookup tests enabled),
\* or the index not loaded yet
InitEvaluate ==
    /\ now \in 1..MaxEvaluateTime
    /\ history = <<>>
    /\ initialized \in BOOLEAN
    /\ \E index \in {EmptyIndex} \cup {("overspeed" :> r) : r \in EvaluateRules} :
          /\ rules = IF initialized THEN index ELSE EmptyIndex
          /\ ruleStore = {index[t] : t \in DOMAIN index}
    /\ \E status \in ActiveStatuses \cup TerminalStatuses, t \in SourceTypes,
          m \in EvaluateMetadata, at \in {0, now}, others \in 0..1 :
          LET alert == [NewAlert(1, t, "", m, at) EXCEPT !.status = status]
          IN /\ proc = [p \in Procs |->
                          IF p = "fn"
                          THEN [IdleProc EXCEPT !.pc = "held", !.alert = alert]
                          ELSE IdleProc]
             /\ store = IF others = 0 THEN (1 :> alert)
                         ELSE (1 :> alert)
                              @@ (2 :> NewAlert(2, "overspeed", "", Plain("D1"), 0))
    /\ changes = <<>>
    /\ ops = 0
    /\ jobs = NewBackgroundJobs
    /\ cache = EmptyCache

NextEvaluate == CallEvaluateAlert

SpecEvaluate == InitEvaluate /\ [][NextEvaluate]_vars

----------------------------------------------------------------------------
(* Claims *)

Statuses == ActiveStatuses \cup TerminalStatuses

\* history entries recording the transition from -> to of alert id
Logged(id, from, to) ==
    Cardinality({i \in DOMAIN history :
        /\ history[i].alertId = id
        /\ history[i].fromStatus = from
        /\ history[i].toStatus = to})

\* changes from -> to of the stored status of alert id
Stored(id, from, to) ==
    Cardinality({i \in DOMAIN changes : changes[i] = <<id, from, to>>})

\* processAlert is running, or has returned, on the alert object of p
InProcessAlert(p) ==
    proc[p].pc \in {"eval", "escSave", "escLog", "closeSave", "closeLog", "ret"}

\* C1: processAlert called on an alert object whose status is AUTO_CLOSED or
\* RESOLVED, whatever evaluateAlert returns, saves nothing, leaves the status
\* as it was, appends no history entry and reports modified = false
C1_TerminalCopyUntouched ==
    \A p \in Procs :
        InProcessAlert(p) /\ proc[p].atCall \in TerminalStatuses
            => /\ proc[p].pc \in {"eval", "ret"}
               /\ proc[p].alert.status = proc[p].atCall
               /\ proc[p].alert = proc[p].orig
               /\ proc[p].logged = <<>>
               /\ proc[p].modified = FALSE

\* processAlert has returned on a terminal alert for which evaluateAlert
\* answered both shouldEscalate and shouldAutoClose
C1_Witness ==
    \E p \in Procs :
        /\ proc[p].pc = "ret"
        /\ proc[p].atCall \in TerminalStatuses
        /\ proc[p].ev.shouldEscalate
        /\ proc[p].ev.shouldAutoClose
        /\ proc[p].success

\* C2: under every interleaving, once the stored status of an alert is
\* AUTO_CLOSED or RESOLVED it never changes again
C2_TerminalStatusIsFinal ==
    [][\A id \in DOMAIN store :
          store[id].status \in TerminalStatuses
              => store'[id].status = store[id].status]_vars

\* C3: per alert at most one OPEN->ESCALATED transition and at most one
\* transition into AUTO_CLOSED is applied to the store and logged
C3_AtMostOnceEffective ==
    \A id \in DOMAIN store :
        /\ Logged(id, "OPEN", "ESCALATED") <= 1
        /\ Stored(id, "OPEN", "ESCALATED") <= 1
        /\ Logged(id, "OPEN", "AUTO_CLOSED")
             + Logged(id, "ESCALATED", "AUTO_CLOSED") <= 1
        /\ Stored(id, "OPEN", "AUTO_CLOSED")
             + Stored(id, "ESCALATED", "AUTO_CLOSED") <= 1

\* C4: once every operation has completed, each change of a stored status
\* has exactly one history entry with the same fromStatus and toStatus, and
\* there is no history entry for a change that was not stored
C4_OneEntryPerChange ==
    AllIdle =>
        \A id \in DOMAIN store, from \in Statuses, to \in Statuses :
            Logged(id, from, to) = Stored(id, from, to)

\* C5: no reader sees a new stored status while the history has no entry
\* for that transition
C5_EntryBeforeStatusVisible ==
    \A id \in DOMAIN store, from \in Statuses, to \in Statuses :
        Stored(id, from, to) <= Logged(id, from, to)

\* the history entries of one processAlert call that lead to ESCALATED
EscalationEntries(logged) ==
    {i \in DOMAIN logged : logged[i][2] = "ESCALATED"}

\* the second of two processAlert calls on one object has returned, the
\* first escalated the alert from OPEN, shouldEscalate holds again
SecondCallAfterEscalation ==
    /\ proc["tw"].pc = "ret"
    /\ proc["tw"].calls = 2
    /\ \E i \in DOMAIN proc["tw"].prevLogged :
          /\ proc["tw"].prevLogged[i][1] = "OPEN"
          /\ proc["tw"].prevLogged[i][2] = "ESCALATED"
    /\ proc["tw"].ev.shouldEscalate

\* what both readings of C6 share: one OPEN->ESCALATED entry, no
\* escalation entry from the second call, severity, escalatedAt and notes
\* as the first call left them
OneEscalation ==
    /\ Logged(proc["tw"].alert.alertId, "OPEN", "ESCALATED") = 1
    /\ EscalationEntries(proc["tw"].logged) = {}
    /\ proc["tw"].alert.severity = proc["tw"].prev.severity
    /\ proc["tw"].alert.escalatedAt = proc["tw"].prev.escalatedAt
    /\ proc["tw"].alert.notes = proc["tw"].prev.notes

\* C6 (as stated): two processAlert calls in sequence on one alert object,
\* the first escalating it from OPEN and shouldEscalate holding again at the
\* second, leave exactly one OPEN->ESCALATED entry, and the second call
\* changes neither status, severity, escalatedAt nor notes
C6_SecondCallChangesNothing ==
    SecondCallAfterEscalation
        => /\ OneEscalation
           /\ proc["tw"].alert.status = proc["tw"].prev.status

\* C6 (amended): as above, except that the second call moves the alert from
\* ESCALATED to AUTO_CLOSED when its evaluation answers shouldAutoClose, and
\* changes the status in no other case
C6_SecondCallNeverEscalates ==
    SecondCallAfterEscalation
        => /\ OneEscalation
           /\ IF proc["tw"].ev.shouldAutoClose
                 /\ proc["tw"].prev.status = "ESCALATED"
              THEN /\ proc["tw"].alert.status = "AUTO_CLOSED"
                   /\ proc["tw"].logged =
                        <<<<"ESCALATED", "AUTO_CLOSED", proc["tw"].ev.reason>>>>
              ELSE /\ proc["tw"].alert.status = proc["tw"].prev.status
                   /\ proc["tw"].logged = <<>>
           /\ store[proc["tw"].alert.alertId] = proc["tw"].alert

\* the second call found the alert ESCALATED and left it so
C6_Witness ==
    /\ SecondCallAfterEscalation
    /\ proc["tw"].prev.status = "ESCALATED"
    /\ proc["tw"].alert.status = "ESCALATED"
    /\ proc["tw"].modified = FALSE

\* the enabled rules stored for the source type of an alert that set both
\* escalate_if_count and window_mins
CountRules(alert) ==
    {r \in ruleStore : /\ r.enabled
                       /\ r.sourceType = alert.sourceType
                       /\ r.conditions.escalate_if_count > 0
                       /\ r.conditions.window_mins > 0}

\* stored alerts that are OPEN or ESCALATED, of the source type and driver
\* of alert, not older than window minutes
SimilarActive(alert, window) ==
    {id \in DOMAIN store :
        /\ store[id].status \in ActiveStatuses
        /\ store[id].sourceType = alert.sourceType
        /\ store[id].metadata.driverId = alert.metadata.driverId
        /\ now - store[id].timestamp <= window}

\* evaluateAlert returns to the processAlert call of p in this step
Evaluated(p) == proc[p].pc = "eval" /\ proc'[p].pc # "eval"

\* C7: for an OPEN alert whose rule is enabled and sets escalate_if_count and
\* window_mins, evaluateAlert answers shouldEscalate exactly when the stored
\* OPEN or ESCALATED alerts of the same source type and driver within the
\* window number at least escalate_if_count
C7_EscalatesAtThreshold ==
    [][\A p \in Procs : \A r \in CountRules(proc[p].alert) :
          Evaluated(p) /\ proc[p].alert.status = "OPEN"
              => (proc'[p].ev.shouldEscalate
                    <=> Cardinality(SimilarActive(proc[p].alert,
                                                  r.conditions.window_mins))
                          >= r.conditions.escalate_if_count)]_vars

\* an OPEN alert is being escalated with exactly escalate_if_count similar
\* active alerts stored, one of them ESCALATED and one outside the count
C7_Witness ==
    \E p \in Procs : \E r \in CountRules(proc[p].alert) :
        /\ proc[p].pc = "escSave"
        /\ proc[p].atCall = "OPEN"
        /\ proc[p].ev.shouldEscalate
        /\ r.conditions.escalate_if_count > 1
        /\ Cardinality(SimilarActive(proc[p].alert, r.conditions.window_mins))
             = r.conditions.escalate_if_count
        /\ \E id \in DOMAIN store : store[id].status = "ESCALATED"

\* the stored alerts counted with the alert that createAlert just processed
ActiveLike(alert) ==
    {id \in DOMAIN store :
        /\ store[id].status \in ActiveStatuses
        /\ store[id].sourceType = alert.sourceType
        /\ store[id].metadata.driverId = alert.metadata.driverId}

\* C8: with the rule escalate_if_count 3, window_mins 60, when createAlert
\* has processed a new alert, the evaluation answered shouldEscalate exactly
\* if the new alert is the third (or a later) active one of its source type
\* and driver, and then the alert is ESCALATED and CRITICAL, in the object
\* and in the store; with fewer it stays OPEN at its severity
C8_ThirdAlertEscalates ==
    LET alert == proc["cr"].alert
    IN proc["cr"].pc = "ret" /\ alert.sourceType = "overspeed"
          => IF Cardinality(ActiveLike(alert)) >= 3
             THEN /\ proc["cr"].ev.shouldEscalate
                  /\ alert.status = "ESCALATED"
                  /\ alert.severity = "CRITICAL"
                  /\ store[alert.alertId] = alert
                  /\ Logged(alert.alertId, "OPEN", "ESCALATED") = 1
             ELSE /\ ~proc["cr"].ev.shouldEscalate
                  /\ alert.status = "OPEN"
                  /\ alert.severity = proc["cr"].orig.severity
                  /\ store[alert.alertId] = alert
                  /\ Logged(alert.alertId, "OPEN", "ESCALATED") = 0

\* the third createAlert for one driver has processed its alert, the clock
\* having advanced since the first: the first two are OPEN, the third is
\* ESCALATED and CRITICAL
C8_Witness ==
    /\ proc["cr"].pc = "ret"
    /\ proc["cr"].alert.alertId = 3
    /\ proc["cr"].ev.shouldEscalate
    /\ \A id \in {1, 2} :
          /\ store[id].status = "OPEN"
          /\ store[id].sourceType = "overspeed"
          /\ store[id].metadata.driverId = store[3].metadata.driverId
    /\ store[1].timestamp < store[3].timestamp
    /\ store[3].sourceType = "overspeed"
    /\ store[3].status = "ESCALATED"
    /\ store[3].severity = "CRITICAL"

\* the enabled rules stored for the source type of an alert that set
\* auto_close_after_mins and whose auto_close_if, if any, the alert does not
\* satisfy
AgeRules(alert) ==
    {r \in ruleStore :
        /\ r.enabled
        /\ r.sourceType = alert.sourceType
        /\ r.conditions.auto_close_after_mins > 0
        /\ \/ r.conditions.auto_close_if = ""
           \/ ~evaluateCloseCondition(r.conditions.auto_close_if,
                                      alert.metadata, now)}

\* processAlert returns to p in this step
Returned(p) == proc[p].pc # "ret" /\ proc'[p].pc = "ret"

\* C9: under a rule with auto_close_after_mins = T and no satisfied
\* auto_close_if, evaluateAlert answers shouldAutoClose exactly when the
\* alert is at least T minutes old, and processAlert called on an OPEN or
\* ESCALATED alert returns with it AUTO_CLOSED exactly in that case
C9_ClosesAtAge ==
    [][\A p \in Procs : \A r \in AgeRules(proc[p].alert) :
          LET old == now - proc[p].alert.timestamp
                        >= r.conditions.auto_close_after_mins
          IN /\ Evaluated(p) => (proc'[p].ev.shouldAutoClose <=> old)
             /\ Returned(p) /\ proc[p].atCall \in ActiveStatuses
                  => /\ proc'[p].alert.status = "AUTO_CLOSED" <=> old
                     /\ store'[proc[p].alert.alertId] = proc'[p].alert]_vars

\* processAlert has closed an alert at the age T + 1, for its age alone
C9_Witness ==
    \E p \in Procs : \E r \in AgeRules(proc[p].alert) :
        /\ proc[p].pc = "ret"
        /\ proc[p].atCall \in ActiveStatuses
        /\ proc[p].alert.status = "AUTO_CLOSED"
        /\ proc[p].alert.autoClosedAt - proc[p].alert.timestamp
             = r.conditions.auto_close_after_mins + 1
        /\ proc[p].ev.reason = "aged"

\* the last n history entries of alert id, as <<from, to, reason>>
RECURSIVE LastEntries(_, _, _)
LastEntries(log, id, n) ==
    IF n = 0 \/ log = <<>> THEN <<>>
    ELSE LET last == log[Len(log)]
             before == SubSeq(log, 1, Len(log) - 1)
         IN IF last.alertId = id
            THEN Append(LastEntries(before, id, n - 1),
                        <<last.fromStatus, last.toStatus, last.reason>>)
            ELSE LastEntries(before, id, n)

\* C10: when evaluateAlert answers both shouldEscalate and shouldAutoClose
\* for an OPEN alert, the one processAlert call ends with the alert
\* AUTO_CLOSED, CRITICAL, escalatedAt set, and exactly two history entries
\* from it, OPEN->ESCALATED then ESCALATED->AUTO_CLOSED, both carrying the
\* reason of the auto-close
C10_EscalatesThenCloses ==
    \A p \in Procs :
        LET alert == proc[p].alert
            reason == proc[p].ev.reason
            entries == <<<<"OPEN", "ESCALATED", reason>>,
                         <<"ESCALATED", "AUTO_CLOSED", reason>>>>
        IN /\ proc[p].pc = "ret"
           /\ proc[p].atCall = "OPEN"
           /\ proc[p].ev.shouldEscalate
           /\ proc[p].ev.shouldAutoClose
           => /\ alert.status = "AUTO_CLOSED"
              /\ alert.severity = "CRITICAL"
              /\ alert.escalatedAt # NoTime
              /\ alert.autoClosedAt = alert.escalatedAt
              /\ alert.closureReason = reason
              /\ reason \in {"aged", "condition"}
              /\ proc[p].logged = entries
              /\ LastEntries(history, alert.alertId, 2) = entries
              /\ proc[p].modified
              /\ store[alert.alertId] = alert

\* processAlert has escalated and closed an OPEN alert in one call
C10_Witness ==
    \E p \in Procs :
        /\ proc[p].pc = "ret"
        /\ proc[p].atCall = "OPEN"
        /\ proc[p].ev.shouldEscalate
        /\ proc[p].ev.shouldAutoClose
        /\ Len(proc[p].logged) = 2
        /\ store[proc[p].alert.alertId].status = "AUTO_CLOSED"

\* index holds, for each source type of the rules in S, one rule of S of that
\* type, and no rule of S of that type has a lower priority
LowestPerType(index, S) ==
    /\ DOMAIN index = {r.sourceType : r \in S}
    /\ \A t \in DOMAIN index :
          /\ index[t] \in S
          /\ index[t].sourceType = t
          /\ \A r \in S : r.sourceType = t => index[t].priority <= r.priority

\* found is the list of the enabled rules of rs by descending priority
EnabledByPriority(found, rs) ==
    /\ {found[i] : i \in DOMAIN found} = {r \in rs : r.enabled}
    /\ Len(found) = Cardinality({r \in rs : r.enabled})
    /\ \A i, j \in DOMAIN found :
          i < j => found[i].priority >= found[j].priority

\* C11: every load of the index (initialize on first use, reloadRules of the
\* sweep and of the rule controller) queries the enabled rules by descending
\* priority and leaves one rule per source type in the index, the one of
\* lowest priority among the enabled rules of that type that were loaded
C11_OneRulePerTypeLowestPriority ==
    [][/\ \A p \in {"re", "ru"} :
            /\ proc[p].pc = "reload" /\ proc'[p].pc = "loaded"
                  => EnabledByPriority(proc'[p].found, ruleStore)
            /\ proc[p].pc = "loaded" /\ proc'[p].pc # "loaded"
                  => /\ initialized'
                     /\ LowestPerType(rules', {proc[p].found[i] :
                                                 i \in DOMAIN proc[p].found})
       /\ ~initialized /\ initialized'
          /\ (\A p \in {"re", "ru"} : proc[p].pc # "loaded")
            => LowestPerType(rules', {r \in ruleStore : r.enabled})
      ]_vars

\* the index holds the priority-5 rule although an enabled rule of the same
\* type with priority 10 is stored
C11_Witness ==
    /\ initialized
    /\ \E t \in DOMAIN rules :
          /\ rules[t].priority = 5
          /\ \E r \in ruleStore :
                r.enabled /\ r.sourceType = t /\ r.priority = 10

\* the sweep is inside processBatch
InProcessBatch(p) ==
    proc[p].pc \notin {"idle", "find", "reload", "loaded", "done"}

\* C12: processBatch handles the alerts of its batch one by one in their
\* order, a failing alert is counted as an error and the next alert is
\* processed: at every moment the alerts counted as processed, those counted
\* as errors and those still to do add up to the batch, and at the end
\* processed + errors is the length of the batch
C12_EveryAlertCountedOnce ==
    \A p \in Sweeps :
        /\ InProcessBatch(p) =>
              /\ proc[p].batch # <<>>
              /\ proc[p].alert.alertId = Head(proc[p].batch).alertId
              /\ proc[p].results.processed + proc[p].results.errors
                    + Len(proc[p].batch) = proc[p].total
        /\ proc[p].pc = "done" /\ proc[p].outcome = "done" =>
              /\ proc[p].results.processed + proc[p].results.errors
                    = proc[p].total
              /\ proc[p].total > 0

\* the first alert of a batch of two has failed, the second has been
\* processed and changed
C12_Witness ==
    \E p \in Sweeps :
        /\ proc[p].pc = "ret"
        /\ proc[p].total = 2
        /\ Len(proc[p].batch) = 1
        /\ proc[p].results.errors = 1
        /\ proc[p].success
        /\ proc[p].modified

\* processAlert has returned success false for a stored alert
FailedInProcessAlert(p) ==
    /\ proc[p].pc = "ret"
    /\ ~proc[p].success
    /\ proc[p].alert.alertId \in DOMAIN store

\* C13: when processAlert has failed, the stored status of the alert is the
\* status it had when processAlert was called
C13_FailureLeavesStatus ==
    \A p \in Procs :
        FailedInProcessAlert(p) =>
            store[proc[p].alert.alertId].status = proc[p].atCall

\* no rule mutation and no reload of the index is in flight
NoReloadInFlight ==
    \A p \in {"re", "ru"} :
        proc[p].pc \notin {"ruCreate", "ruSave", "ruDelete", "reload", "loaded"}

\* C14: once the index is loaded and no rule mutation and no reload is in
\* flight, the index is the one built from the enabled rules in the store
C14_IndexMatchesStore ==
    initialized /\ NoReloadInFlight => rules = initialize(ruleStore)

\* stats.autoCloseRuns or stats.ruleEvaluationRuns
Runs(j, p) ==
    IF p = "ac" THEN j.stats.autoCloseRuns ELSE j.stats.ruleEvaluationRuns

\* stats.lastAutoCloseRun or stats.lastRuleEvaluationRun
LastRun(j, p) ==
    IF p = "ac" THEN j.stats.lastAutoCloseRun
    ELSE j.stats.lastRuleEvaluationRun

\* the run of sweep p ends in this step without an exception
RunEnds(p) ==
    /\ proc[p].pc # "done"
    /\ proc'[p].pc = "done"
    /\ proc'[p].outcome # "error"

\* C15: a sweep run that ends without an exception has added one to its run
\* counter and set its last-run time, also when its query found no alert
C15_EveryRunCounted ==
    [][\A p \in Sweeps :
          RunEnds(p) => /\ Runs(jobs', p) = Runs(jobs, p) + 1
                        /\ LastRun(jobs', p) = now]_vars

\* the run of sweep p ends in this step in its catch block
RunFails(p) ==
    /\ proc[p].pc # "done"
    /\ proc'[p].pc = "done"
    /\ proc'[p].outcome = "error"

\* processAlert fails in this step inside the batch of sweep p
AlertFails(p) ==
    /\ InProcessBatch(p)
    /\ proc[p].pc # "ret"
    /\ proc'[p].pc = "ret"
    /\ ~proc'[p].success

\* C16: a failure inside a sweep run (its store query, the rule reload, the
\* processing of an alert of its batch) never leaves the run: the run ends
\* or goes on with its batch, the scheduler state (jobs, isRunning) and the
\* stats are what they were, the ended run returns to its caller, and
\* whenever no operation is in flight a manual run can start, a scheduled
\* one whenever the jobs are running
C16_FailureIsContained ==
    /\ [][\A p \in Sweeps : RunFails(p) \/ AlertFails(p) => jobs' = jobs]_vars
    /\ [](\A p \in Sweeps : proc[p].pc = "done" => ENABLED ReturnFromRun(p))
    /\ [](AllIdle => /\ ENABLED triggerAutoClose
                     /\ ENABLED triggerRuleEvaluation
                     /\ jobs.isRunning => /\ ENABLED RunAutoCloseJob
                                          /\ ENABLED RunRuleEvaluationJob)

\* a scheduled run has failed in its store query or its reload and the jobs
\* are still scheduled
C16_Witness ==
    \E p \in Sweeps :
        /\ proc[p].pc = "done"
        /\ proc[p].outcome = "error"
        /\ ~proc[p].manual
        /\ jobs.isRunning
        /\ jobs.jobs = 2

\* the step leaves status, severity and the timestamps of every stored
\* alert and the history as they are
NothingChanges ==
    /\ history' = history
    /\ DOMAIN store' = DOMAIN store
    /\ \A id \in DOMAIN store :
          /\ store'[id].status = store[id].status
          /\ store'[id].severity = store[id].severity
          /\ store'[id].timestamp = store[id].timestamp
          /\ store'[id].escalatedAt = store[id].escalatedAt
          /\ store'[id].autoClosedAt = store[id].autoClosedAt
          /\ store'[id].resolvedAt = store[id].resolvedAt

\* C17 as stated: a run that follows a completed failure-free run of the
\* same sweep at once changes no alert and appends no history entry
C17_SecondRunChangesNothing ==
    [][\A p \in Sweeps : proc[p].first > 0 => NothingChanges]_vars

\* C17: a run that follows at once a completed failure-free run of the same
\* sweep whose query returned fewer alerts than the batch limit changes no
\* alert and appends no history entry
C17_SecondRunAfterFullSweep ==
    [][\A p \in Sweeps :
          proc[p].first > 0 /\ proc[p].first < BatchLimit
            => NothingChanges]_vars

\* the second run has ended after a first run that closed an alert and
\* whose batch of two was below the limit
C17_Witness ==
    \E p \in Sweeps :
        /\ proc[p].first = 2
        /\ proc[p].first < BatchLimit
        /\ proc[p].pc = "done"
        /\ \E id \in DOMAIN store : store[id].status = "AUTO_CLOSED"

\* C18: evaluateAlert answers shouldEscalate only when the similar active
\* alerts in the window whose expiry has not passed number at least
\* escalate_if_count: an alert with expiresAt <= now does not contribute
C18_ExpiredNeverCounted ==
    [][\A p \in Procs : \A r \in CountRules(proc[p].alert) :
          Evaluated(p) /\ proc'[p].ev.shouldEscalate
              => Cardinality({id \in SimilarActive(proc[p].alert,
                                                   r.conditions.window_mins) :
                                Unexpired(store[id], now)})
                   >= r.conditions.escalate_if_count]_vars

\* C19: once an operation has completed, no cached alert list and no cached
\* dashboard overview shows other statuses than the store: what was cached
\* before the operation changed a status has been invalidated
C19_NoStaleEntrySurvives ==
    AllIdle =>
        /\ "alerts:list" \in DOMAIN cache =>
              cache["alerts:list"] = AlertList(store)
        /\ "dashboard:overview" \in DOMAIN cache =>
              cache["dashboard:overview"].status = Overview(store, now).status

\* C20: a manually triggered run that met an error (its query or reload
\* failed, or an alert of its batch failed) hands its caller the statistics
\* of the batch with the error count
C20_TriggerReturnsStatistics ==
    \A p \in Sweeps :
        /\ proc[p].pc = "done"
        /\ proc[p].manual
        /\ proc[p].outcome = "error" \/ proc[p].results.errors > 0
        => /\ proc[p].reply.defined
           /\ proc[p].reply.results = proc[p].results
           /\ proc[p].reply.errors = proc[p].results.errors

----------------------------------------------------------------------------
(* The document methods *)

DefaultNotes == "Auto-escalated by rule engine"

\* C21: escalate(reason) on an OPEN alert sets status ESCALATED, severity
\* CRITICAL whatever the severity was, escalatedAt to the time of the call
\* and notes to the reason, or to the default text when the reason is empty
\* or missing; on an alert of any other status it changes no field
C21_EscalateOnlyFromOpen ==
    LET c == proc["fn"]
    IN c.pc = "escalate" =>
         IF c.orig.status = "OPEN"
         THEN /\ c.alert.status = "ESCALATED"
              /\ c.alert.severity = "CRITICAL"
              /\ c.alert.escalatedAt = c.at
              /\ c.alert.notes = IF c.args[1] \in {"", "undefined"}
                                 THEN DefaultNotes ELSE c.args[1]
         ELSE c.alert = c.orig

\* an OPEN alert of severity INFO is escalated with no reason
C21_Witness ==
    /\ proc["fn"].pc = "escalate"
    /\ proc["fn"].orig.status = "OPEN"
    /\ proc["fn"].orig.severity = "INFO"
    /\ proc["fn"].args = <<"undefined">>
    /\ proc["fn"].at > 0

\* C22: autoClose(reason) on an OPEN or ESCALATED alert sets status
\* AUTO_CLOSED, autoClosedAt to the time of the call and closureReason to
\* the reason, and leaves severity, escalatedAt, notes, resolvedAt and
\* resolvedBy as they were; on an AUTO_CLOSED or RESOLVED alert it changes
\* no field
C22_AutoCloseOnlyFromActive ==
    LET c == proc["fn"]
    IN c.pc = "autoClose" =>
         IF c.orig.status \in {"OPEN", "ESCALATED"}
         THEN /\ c.alert.status = "AUTO_CLOSED"
              /\ c.alert.autoClosedAt = c.at
              /\ c.alert.closureReason = c.args[1]
              /\ c.alert.severity = c.orig.severity
              /\ c.alert.escalatedAt = c.orig.escalatedAt
              /\ c.alert.notes = c.orig.notes
              /\ c.alert.resolvedAt = c.orig.resolvedAt
              /\ c.alert.resolvedBy = c.orig.resolvedBy
         ELSE c.alert = c.orig

\* an escalated alert is closed later than it was escalated
C22_Witness ==
    /\ proc["fn"].pc = "autoClose"
    /\ proc["fn"].orig.status = "ESCALATED"
    /\ proc["fn"].orig.notes = DefaultNotes
    /\ proc["fn"].at > proc["fn"].orig.escalatedAt

\* C23: resolve(actorId, notes) has no guard: from every status, the
\* terminal ones included, it sets status RESOLVED, resolvedAt to the time
\* of the call, resolvedBy to the actor and notes to the notes given
C23_ResolveFromEveryStatus ==
    LET c == proc["fn"]
    IN c.pc = "resolve" =>
         /\ c.alert.status = "RESOLVED"
         /\ c.alert.resolvedAt = c.at
         /\ c.alert.resolvedBy = c.args[1]
         /\ c.alert.notes = c.args[2]

\* a resolved alert is resolved again, later and by another actor
C23_Witness ==
    /\ proc["fn"].pc = "resolve"
    /\ proc["fn"].orig.status = "RESOLVED"
    /\ proc["fn"].orig.resolvedBy # proc["fn"].args[1]
    /\ proc["fn"].at > proc["fn"].orig.resolvedAt

----------------------------------------------------------------------------
(* resolveAlert on closed and on unknown alerts *)

\* C24: resolveAlert answers 400 when the alert it loaded is RESOLVED or
\* AUTO_CLOSED and 404 when there is no alert of the id asked for; in both
\* cases no stored alert changes (status, resolvedAt, resolvedBy and notes
\* included), no history entry is appended and no cache entry is
\* invalidated, from the request to the answer
C24_ClosedAlertIsRejected ==
    [][/\ proc["rs"].pc = "idle" /\ proc'["rs"].pc # "idle" =>
            LET id == proc'["rs"].args[1]
                known == id \in DOMAIN store
            IN /\ ~known =>
                     proc'["rs"].pc = "rsAnswer" /\ proc'["rs"].outcome = "404"
               /\ known /\ store[id].status \in {"RESOLVED", "AUTO_CLOSED"} =>
                     proc'["rs"].pc = "rsAnswer" /\ proc'["rs"].outcome = "400"
               /\ proc'["rs"].pc = "rsAnswer" =>
                     UNCHANGED <<store, history, cache>>
       /\ proc["rs"].pc = "rsAnswer" =>
            /\ proc'["rs"].pc = "idle"
            /\ UNCHANGED <<store, history, cache>>]_vars

\* the answer 400 for an automatically closed alert while both views are
\* cached
C24_Witness ==
    /\ proc["rs"].pc = "rsAnswer"
    /\ proc["rs"].outcome = "400"
    /\ store[proc["rs"].args[1]].status = "AUTO_CLOSED"
    /\ {"alerts:list", "dashboard:overview"} \subseteq DOMAIN cache

----------------------------------------------------------------------------
(* evaluateAlert and evaluateCloseCondition *)

\* the rule evaluateAlert found for the alert of the caller, if any
Indexed == rules[proc["fn"].alert.sourceType]

Active ==
    proc["fn"].alert.sourceType \in DOMAIN rules /\ Indexed.enabled

\* C25: when the index has no rule for the source type of the alert, or the
\* indexed rule is disabled, evaluateAlert returns shouldEscalate false and
\* shouldAutoClose false with no reason and no rule, whatever the status
\* and the metadata of the alert, and sends no count query
C25_NoRuleNoAction ==
    proc["fn"].pc = "evaluate" /\ ~Active =>
        /\ proc["fn"].ev.shouldEscalate = FALSE
        /\ proc["fn"].ev.shouldAutoClose = FALSE
        /\ proc["fn"].ev.reason = "undefined"
        /\ proc["fn"].ev.rule = "undefined"
        /\ proc["fn"].queries = 0

\* a disabled rule all of whose conditions the alert meets
C25_Witness ==
    /\ proc["fn"].pc = "evaluate"
    /\ proc["fn"].alert.sourceType \in DOMAIN rules
    /\ ~Indexed.enabled
    /\ proc["fn"].alert.status = "OPEN"
    /\ Cardinality(SimilarActive(proc["fn"].alert,
                                   Indexed.conditions.window_mins))
          >= Indexed.conditions.escalate_if_count
    /\ proc["fn"].alert.metadata.speed = 1
    /\ proc["fn"].alert.metadata.speedLimit = 2
    /\ now - proc["fn"].alert.timestamp
          >= Indexed.conditions.auto_close_after_mins

\* the three checks, each by itself
CountMet ==
    /\ Indexed.conditions.escalate_if_count # 0
    /\ Indexed.conditions.window_mins # 0
    /\ Cardinality(SimilarActive(proc["fn"].alert,
                                   Indexed.conditions.window_mins))
          >= Indexed.conditions.escalate_if_count

\* the catalogue of close conditions
Catalogue(name, metadata) ==
    CASE name = "document_valid" ->
           \/ metadata.documentValid = "true"
           \/ metadata.expiryDate # NoTime /\ metadata.expiryDate > now
      [] name = "speed_normalized" ->
           /\ NoNum \notin {metadata.speed, metadata.speedLimit}
           /\ metadata.speed <= metadata.speedLimit
      [] name = "feedback_improved" ->
           metadata.feedbackRating # NoNum /\ metadata.feedbackRating >= 3
      [] name = "documentValid" -> metadata.documentValid = "true"
      [] OTHER -> name \in metadata.trueFlags

ConditionMet ==
    /\ Indexed.conditions.auto_close_if # ""
    /\ Catalogue(Indexed.conditions.auto_close_if, proc["fn"].alert.metadata)

AgeMet ==
    /\ Indexed.conditions.auto_close_after_mins # 0
    /\ now - proc["fn"].alert.timestamp
          >= Indexed.conditions.auto_close_after_mins

\* C26: the three checks of evaluateAlert are independent: shouldEscalate is
\* the outcome of the count check alone, shouldAutoClose is that of the
\* close condition or of the age check, both can be true together, and the
\* reason is that of the last satisfied check in the order count, close
\* condition, age, shouldEscalate staying true under a close reason
C26_ChecksAreIndependent ==
    proc["fn"].pc = "evaluate" /\ Active =>
        /\ proc["fn"].ev.shouldEscalate = CountMet
        /\ proc["fn"].ev.shouldAutoClose = (ConditionMet \/ AgeMet)
        /\ proc["fn"].ev.reason =
              IF AgeMet THEN "aged"
              ELSE IF ConditionMet THEN "condition"
              ELSE IF CountMet THEN "count" ELSE ""
        /\ proc["fn"].ev.rule = Indexed.ruleId

\* the count check and the close condition are met, the age check is not:
\* both flags are true under the reason of the close condition
C26_Witness ==
    /\ proc["fn"].pc = "evaluate"
    /\ Active
    /\ CountMet /\ ConditionMet /\ ~AgeMet
    /\ Indexed.conditions.auto_close_after_mins # 0
    /\ proc["fn"].ev.shouldEscalate
    /\ proc["fn"].ev.shouldAutoClose
    /\ proc["fn"].ev.reason = "condition"

\* C27: evaluateCloseCondition agrees with the catalogue on every metadata
\* map: document_valid holds exactly when documentValid is boolean true or
\* there is an expiryDate strictly after now, speed_normalized exactly when
\* speed and speedLimit are there and speed <= speedLimit,
\* feedback_improved exactly when there is a feedbackRating >= 3, any
\* other name exactly when the field of that name is boolean true, a name
\* absent from the metadata giving false; so, short of the age check, an
\* alert is to be closed exactly when the named condition holds
C27_ConditionsFollowCatalogue ==
    proc["fn"].pc = "evaluate" /\ Active /\ ~AgeMet
    /\ Indexed.conditions.auto_close_if # "" =>
        /\ proc["fn"].ev.shouldAutoClose
              = Catalogue(Indexed.conditions.auto_close_if,
                          proc["fn"].alert.metadata)
        /\ proc["fn"].ev.shouldAutoClose =>
              proc["fn"].ev.reason = "condition"

\* metadata { documentValid: true } under auto_close_if document_valid, the
\* expiry date passed
C27_Witness ==
    /\ proc["fn"].pc = "evaluate"
    /\ Active
    /\ Indexed.conditions.auto_close_if = "document_valid"
    /\ Indexed.conditions.auto_close_after_mins = 0
    /\ proc["fn"].alert.metadata.documentValid = "true"
    /\ proc["fn"].alert.metadata.expiryDate = 0
    /\ proc["fn"].ev.shouldAutoClose
    /\ proc["fn"].ev.reason = "condition"

----------------------------------------------------------------------------
(* The counts of processBatch *)

\* transitions into status to among those the processAlert call of p took
\* (saved and logged)
Taken(p, to) ==
    IF \E i \in DOMAIN proc[p].logged : proc[p].logged[i][2] = to
    THEN 1 ELSE 0

\* C28: when processBatch counts the outcome of a processAlert call, escalated
\* grows by one exactly if the call took the transition OPEN -> ESCALATED
\* on the alert and autoClosed by one exactly if it took a transition into
\* AUTO_CLOSED, also when it took both; so at the end of the batch each
\* count is the number of alerts on which that transition was taken
C28_CountsAreTransitions ==
    [][\A p \in Sweeps :
          proc[p].pc = "ret" /\ proc'[p].pc # "ret" /\ proc[p].success =>
              /\ proc'[p].results.escalated
                    = proc[p].results.escalated + Taken(p, "ESCALATED")
              /\ proc'[p].results.autoClosed
                    = proc[p].results.autoClosed + Taken(p, "AUTO_CLOSED")]_vars

----------------------------------------------------------------------------
(* The batches of the sweeps *)

\* the query of sweep p is answered in this step
Fetched(p) == proc[p].pc = "find" /\ proc'[p].pc = "eval"

\* the stored alerts, of the statuses given, whose expiry is unset or in the
\* future
Candidates(statuses) ==
    {id \in DOMAIN store :
        /\ store[id].status \in statuses
        /\ store[id].expiresAt = NoTime \/ store[id].expiresAt > now}

\* batch holds stored alerts that are candidates, each once, and no more of
\* them than the limit
FromCandidates(batch, statuses) ==
    /\ Len(batch) <= BatchLimit
    /\ \A i \in DOMAIN batch :
          /\ batch[i].alertId \in Candidates(statuses)
          /\ batch[i] = store[batch[i].alertId]
          /\ \A j \in DOMAIN batch : batch[j].alertId = batch[i].alertId => j = i

\* C29: every alert a sweep hands to processBatch satisfies the filter of
\* the sweep when it is fetched, and no batch is longer than the limit: the
\* auto-close sweep fetches OPEN and ESCALATED alerts whose expiry is unset
\* or in the future, the rule evaluation sweep OPEN alerts only whose expiry
\* is unset or in the future, in ascending order of timestamp, and when
\* there are more candidates than the limit, the oldest of them
C29_BatchesAreFiltered ==
    [][/\ Fetched("ac") =>
            FromCandidates(proc'["ac"].batch, {"OPEN", "ESCALATED"})
       /\ Fetched("re") =>
            LET batch == proc'["re"].batch
                left == Candidates({"OPEN"})
                          \ {batch[i].alertId : i \in DOMAIN batch}
            IN /\ FromCandidates(batch, {"OPEN"})
               /\ \A i, j \in DOMAIN batch :
                     i < j => batch[i].timestamp <= batch[j].timestamp
               /\ left # {} => Len(batch) = BatchLimit
               /\ \A id \in left : \A i \in DOMAIN batch :
                     batch[i].timestamp <= store[id].timestamp]_vars

\* the rule evaluation sweep has fetched a full batch and a newer OPEN alert
\* is left out
C29_Witness ==
    /\ proc["re"].pc = "eval"
    /\ Len(proc["re"].batch) = BatchLimit
    /\ proc["re"].total = BatchLimit
    /\ \E id \in Candidates({"OPEN"}) :
          /\ \A i \in DOMAIN proc["re"].batch :
                proc["re"].batch[i].alertId # id
          /\ store[id].timestamp > Head(proc["re"].batch).timestamp

----------------------------------------------------------------------------
(* The replacement of the rule index *)

\* index is the whole of answer: it has an entry for every source type of
\* the answer and for no other, each the last rule of its type in the answer
WholeOf(index, answer) ==
    /\ DOMAIN index = {answer[i].sourceType : i \in DOMAIN answer}
    /\ \A i \in DOMAIN answer :
          (\A j \in DOMAIN answer :
              j > i => answer[j].sourceType # answer[i].sourceType)
            => index[answer[i].sourceType] = answer[i]

\* the answers of Rule.find, or of the cache, that an initialize call has at
\* hand in this state
AnswersAtHand ==
    {proc[p].found : p \in {q \in {"re", "ru"} : proc[q].pc = "loaded"}}
    \cup (IF "rules:all" \in DOMAIN cache THEN {cache["rules:all"]} ELSE {})
    \cup {FindEnabledRules(ruleStore)}

\* C30: the index is replaced at once: whenever it changes, under every
\* interleaving of initialize, reloadRules and evaluateAlert at their awaits,
\* it changes in one step from the index it was to the whole index of one
\* answer, and the index evaluateAlert looks a rule up in is a loaded one;
\* so a lookup finds the complete old index or the complete new one, never
\* a cleared or half built one
C30_IndexReplacedAtOnce ==
    [][/\ rules' # rules =>
            \E answer \in AnswersAtHand : WholeOf(rules', answer)
       /\ \A p \in Procs : Evaluated(p) =>
            /\ initialized'
            /\ initialized => rules' = rules]_vars

\* evaluateAlert is about to look a rule up in the loaded index while a
\* reload holds an answer that makes another index
C30_Witness ==
    /\ initialized
    /\ rules # EmptyIndex
    /\ proc["cr"].pc = "eval"
    /\ \E q \in {"re", "ru"} :
          /\ proc[q].pc = "loaded"
          /\ ~WholeOf(rules, proc[q].found)

----------------------------------------------------------------------------
(* Failures to load the rules *)

\* the Rule.find of the reload of p throws in this step
ReloadFails(p) ==
    proc[p].pc = "reload" /\ proc'[p].pc \notin {"reload", "loaded"}

\* the first load of the index, inside the processAlert call of p, throws
\* in this step
FirstLoadFails(p) ==
    /\ proc[p].pc = "eval" /\ ~initialized
    /\ proc'[p].pc # "eval" /\ ~initialized'

\* C31: a failure to load the rules reaches the caller of reloadRules: the
\* handler of the rule controller ends at once, the rule evaluation run ends
\* in its catch before it has fetched or processed any alert; a failure of
\* the first load inside processAlert is not thrown: the call returns
\* success false, processBatch counts one more error and goes on
C31_LoadFailureReachesCaller ==
    [][/\ ReloadFails("ru") =>
            proc'["ru"] = IdleProc /\ UNCHANGED <<store, history, cache>>
       /\ ReloadFails("re") =>
            /\ proc'["re"].pc = "done"
            /\ proc'["re"].outcome = "error"
            /\ proc'["re"].total = 0
            /\ proc'["re"].results = ZeroResults
            /\ UNCHANGED <<store, history, jobs>>
       /\ \A p \in Procs : FirstLoadFails(p) =>
            /\ proc'[p].pc = "ret"
            /\ proc'[p].success = FALSE
            /\ UNCHANGED <<store, history>>
       /\ \A p \in Sweeps :
            proc[p].pc = "ret" /\ ~proc[p].success /\ proc'[p].pc # "ret" =>
              /\ proc'[p].results.errors = proc[p].results.errors + 1
              /\ proc'[p].results.processed = proc[p].results.processed
              /\ proc'[p].pc = "eval" \/ proc'[p].outcome = "done"]_vars

\* an auto-close run has ended regularly with every alert of its batch
\* counted as an error, the index still not loaded
C31_Witness ==
    /\ proc["ac"].pc = "done"
    /\ proc["ac"].outcome = "done"
    /\ proc["ac"].total = 2
    /\ proc["ac"].results.errors = 2
    /\ ~initialized

\* C37: when loading the rules fails, in reloadRules or in the first load,
\* the index and the initialized flag stay as they were before the call, so
\* the rules loaded before stay in force; the index changes only in a step
\* that holds the new list of rules
C37_FailedLoadKeepsIndex ==
    [][/\ \A p \in Procs : ReloadFails(p) \/ FirstLoadFails(p) =>
            UNCHANGED <<rules, initialized>>
       /\ rules' # rules \/ initialized' # initialized =>
            \E p \in Procs :
               \/ proc[p].pc = "loaded" /\ proc'[p].pc # "loaded"
               \/ /\ proc[p].pc = "eval" /\ ~initialized
                  /\ proc'[p].pc # "eval" /\ initialized'
                  /\ \/ proc'[p].pc # "ret"
                     \/ proc'[p].success]_vars

\* after a failed reload the index holds rules that are no longer the
\* enabled rules of the store
C37_Witness ==
    /\ AllIdle
    /\ initialized
    /\ rules # EmptyIndex
    /\ rules # initialize(ruleStore)

----------------------------------------------------------------------------
(* Manual and scheduled runs *)

\* what a run leaves behind
Effects(around) ==
    [store |-> around.store, changes |-> around.changes,
     history |-> around.history, stats |-> around.jobs.stats,
     cache |-> around.cache]

\* the scheduled run that followed the manual run of the same sweep, from
\* the same surroundings and under the same failure pattern, has ended
BothRunsEnded ==
    /\ ops.phase = "scheduled"
    /\ proc[ops.sweep].pc = "done"

----------------------------------------------------------------------------
(* evaluateAlert reads only *)

\* evaluateAlert is called on the document the caller holds and returns
CallReturns == proc["fn"].pc = "held" /\ proc'["fn"].pc = "evaluate"

\* C33: a call of evaluateAlert on an alert of any status changes no field
\* of the alert object and no stored alert and appends no history entry;
\* with the index loaded it changes nothing at all, and otherwise it loads
\* the index
C33_EvaluateAlertReadsOnly ==
    [][CallReturns =>
         /\ proc'["fn"].alert = proc["fn"].alert
         /\ UNCHANGED <<store, changes, history, ruleStore, jobs, now>>
         /\ initialized => UNCHANGED <<rules, initialized, cache>>
         /\ ~initialized =>
               /\ initialized'
               /\ rules' = initialize(ruleStore)
               /\ \A k \in DOMAIN cache' \ DOMAIN cache : k = "rules:all"
               /\ \A k \in DOMAIN cache : k \in DOMAIN cache' /\ cache'[k] = cache[k]]_vars

\* the call has loaded the index and found that the OPEN alert is to be
\* escalated and to be closed
C33_Witness ==
    /\ proc["fn"].pc = "evaluate"
    /\ "rules:all" \in DOMAIN cache
    /\ proc["fn"].alert.status = "OPEN"
    /\ proc["fn"].ev.shouldEscalate
    /\ proc["fn"].ev.shouldAutoClose
    /\ store[1].status = "OPEN"

----------------------------------------------------------------------------
(* The scheduler *)

\* C38: through every sequence of start() and stop(), isRunning is true
\* exactly when two tasks are registered and false exactly when none is: a
\* start() while running registers nothing more, stop() removes every task,
\* a start() when stopped registers two
C38_RunningMeansTwoJobs ==
    /\ [](/\ jobs.jobs \in {0, 2}
          /\ jobs.isRunning <=> jobs.jobs = 2)
    /\ [][/\ jobs.isRunning /\ jobs'.isRunning => jobs'.jobs = jobs.jobs
          /\ ~jobs'.isRunning => jobs'.jobs = 0
          /\ ~jobs.isRunning /\ jobs'.isRunning => jobs'.jobs = 2]_vars

\* the scheduler is running with its two tasks while a run that one of them
\* started is processing its batch, start() and stop() can be called
C38_Witness ==
    /\ jobs.isRunning
    /\ jobs.jobs = 2
    /\ \E p \in Sweeps : InProcessBatch(p) /\ ~proc[p].manual
    /\ ENABLED Start
    /\ ENABLED Stop

----------------------------------------------------------------------------
(* Status and lifecycle fields *)

\* the lifecycle fields of the alert fit its status
Consistent(alert) ==
    /\ alert.status = "OPEN" =>
          /\ alert.escalatedAt = NoTime
          /\ alert.autoClosedAt = NoTime
          /\ alert.resolvedAt = NoTime
    /\ alert.status = "ESCALATED" =>
          /\ alert.severity = "CRITICAL"
          /\ alert.escalatedAt # NoTime
          /\ alert.autoClosedAt = NoTime
          /\ alert.resolvedAt = NoTime
    /\ alert.status = "AUTO_CLOSED" =>
          /\ alert.autoClosedAt # NoTime
          /\ alert.resolvedAt = NoTime
    /\ alert.status = "RESOLVED" =>
          /\ alert.resolvedAt # NoTime
          /\ alert.autoClosedAt = NoTime

\* C35: in every reachable state the status and the lifecycle fields of
\* every stored alert are consistent: OPEN with no escalatedAt, autoClosedAt
\* or resolvedAt; ESCALATED with severity CRITICAL, escalatedAt and no
\* terminal timestamp; AUTO_CLOSED with autoClosedAt and no resolvedAt;
\* RESOLVED with resolvedAt and no autoClosedAt
C35_LifecycleFieldsFitStatus ==
    \A id \in DOMAIN store : Consistent(store[id])

----------------------------------------------------------------------------
(* The history of an alert as a chain *)

\* the history entries of the alert in the order they were appended
EntriesOf(id) == SelectSeq(history, LAMBDA entry : entry.alertId = id)

\* the entries start with null -> OPEN, each goes on from the status the
\* one before it led to, and the last leads to the stored status
Chain(id) ==
    LET entries == EntriesOf(id)
    IN /\ entries # <<>>
       /\ entries[1].fromStatus = "null"
       /\ entries[1].toStatus = "OPEN"
       /\ \A i \in 2 .. Len(entries) :
             entries[i].fromStatus = entries[i - 1].toStatus
       /\ entries[Len(entries)].toStatus = store[id].status

\* C36: whenever no operation is in flight, the history entries of every
\* stored alert form a chain in append order: first null -> OPEN, each later
\* entry from the status the previous one led to, the last one to the
\* stored status of the alert
C36_HistoryIsChain ==
    AllIdle => \A id \in DOMAIN store : Chain(id)

----------------------------------------------------------------------------
(* Every eligible alert is closed in the end *)

\* the stored alert is active, unexpired and its rule, as stored, asks for
\* its auto-closure now
Eligible(id) ==
    /\ id \in DOMAIN store
    /\ store[id].status \in ActiveStatuses
    /\ Unexpired(store[id], now)
    /\ evaluateAlert(store[id], initialize(ruleStore), store, now).shouldAutoClose

\* no run is in flight and every run of the auto-close sweep is still to
\* come: MaxFairRuns runs that find alerts, which fetch every stored alert
\* unless fetched alerts stay active (MaxFairAlerts <= MaxFairRuns *
\* BatchLimit)
RunsToCome == AllIdle /\ jobs.stats.autoCloseRuns = 0

====
